---- MODULE Spec2Model ----
(***************************************************************************)
(* The Rijksmuseum tour asset scripts of whisker-core                      *)
(* (examples/museum_tours/rijksmuseum): seven generator scripts and the    *)
(* verifier, run one after another against one working directory.          *)
(*                                                                         *)
(* The state is the file tree (fs, dirs) plus the running script's local   *)
(* variables.  A script is run by Start, then its Setup action (imports,   *)
(* mkdir), then one action per loop step, then its summary.  An external   *)
(* call (HTTP GET, image save, TTS, audio export) either succeeds or       *)
(* raises; a raising call leaves the file tree as it was, except the image *)
(* save of the download script, which may also raise after it has opened   *)
(* its output file for writing.                                            *)
(***************************************************************************)
EXTENDS Integers, Sequences, FiniteSets, TLC

\* Bounds of the model
MaxRuns == 5
MaxFaults == 1

Range(s) == {s[i] : i \in 1..Len(s)}

(***************************************************************************)
(* The fixed mappings of the scripts (Python dicts keep insertion order:   *)
(* a mapping is its key sequence plus the fields the code reads).          *)
(***************************************************************************)

\* download_rijksmuseum_images.py
ARTWORKS ==
  << "night_watch.jpg", "milkmaid.jpg", "merry_drinker.jpg",
     "self_portrait_paul.jpg", "jewish_bride.jpg", "still_life.jpg",
     "threatened_swan.jpg", "winter_landscape.jpg", "delftware.jpg",
     "battle_waterloo.jpg", "warship_model.jpg", "dutch_dollhouse.jpg",
     "gallery_of_honour.jpg" >>

\* 'object_number' of the entries that have one
object_number ==
  [ f \in {"night_watch.jpg", "milkmaid.jpg", "merry_drinker.jpg",
           "self_portrait_paul.jpg", "jewish_bride.jpg", "still_life.jpg",
           "threatened_swan.jpg", "winter_landscape.jpg",
           "battle_waterloo.jpg", "dutch_dollhouse.jpg"} |->
      CASE f = "night_watch.jpg"        -> "SK-C-5"
        [] f = "milkmaid.jpg"           -> "SK-A-2344"
        [] f = "merry_drinker.jpg"      -> "SK-A-133"
        [] f = "self_portrait_paul.jpg" -> "SK-A-4050"
        [] f = "jewish_bride.jpg"       -> "SK-C-216"
        [] f = "still_life.jpg"         -> "SK-A-2069"
        [] f = "threatened_swan.jpg"    -> "SK-A-4"
        [] f = "winter_landscape.jpg"   -> "SK-A-1718"
        [] f = "battle_waterloo.jpg"    -> "SK-A-1115"
        [] f = "dutch_dollhouse.jpg"    -> "BK-NM-743" ]

direct_urls ==
  [ f \in {"night_watch.jpg", "milkmaid.jpg", "merry_drinker.jpg",
           "jewish_bride.jpg", "winter_landscape.jpg"} |->
      CASE f = "night_watch.jpg" ->
             "https://lh3.googleusercontent.com/J-mxAE7CPu-DXIOx4QKBtb0GC4ud37da1QK7CzbTIDswmvZHXhLm4Tv2-1H3iBXJWAW_bx5O8kIEbM0XMlE6FZ9gU=s0"
        [] f = "milkmaid.jpg" ->
             "https://lh3.googleusercontent.com/zYX48j-dDlPLU6N8KH0-l0FTxvhNbmhKf17lGMHGjsm2kNdjzSzJHCO9_xLW6F8v0gHy_aPPl5HrGW8C9k5Q6T1H=s0"
        [] f = "merry_drinker.jpg" ->
             "https://lh3.googleusercontent.com/xGN9CmXb_3dE2R6Sq3SVKuNjfC9A7-KlcMJJqFjHT0kPpLJTKLQhUOpLbCiYX3_-g6lFHj8PJ1XLrr1A1RXe0Y9k=s0"
        [] f = "jewish_bride.jpg" ->
             "https://lh3.googleusercontent.com/AKxfBZpJUNZNMBAWHjfkl6gq4UCq63vUWKNtJkkmjPrTJ0u0cNOXfNcnJd2QP2yh7kWQ5qCPCv0zUQ=s0"
        [] f = "winter_landscape.jpg" ->
             "https://lh3.googleusercontent.com/O7ES8hCeygPDvHSob5Yl4bPIRGA58EoCM-ouQYN6CYGn8RL4rYhjaKqfSzmosM3qpw5b0K7qe6AK1rNGY8RTMZDvsPw=s0" ]

\* generate_qr_codes.py (keys of QR_CODES)
QR_CODES ==
  << "RIJKS-WELCOME", "RIJKS-NIGHTWATCH-001", "RIJKS-MILKMAID-002",
     "RIJKS-DRINKER-003", "RIJKS-REMBRANDT-SELF-004", "RIJKS-BRIDE-005",
     "RIJKS-STILLLIFE-006", "RIJKS-SWAN-007", "RIJKS-WINTER-008",
     "RIJKS-DELFTWARE-009", "RIJKS-WATERLOO-010", "RIJKS-WARSHIP-011",
     "RIJKS-DOLLHOUSE-012" >>

\* generate_placeholder_images.py (keys of IMAGES)
IMAGES ==
  << "gallery_of_honour.jpg", "night_watch.jpg", "milkmaid.jpg",
     "merry_drinker.jpg", "self_portrait_paul.jpg", "jewish_bride.jpg",
     "still_life.jpg", "threatened_swan.jpg", "winter_landscape.jpg",
     "delftware.jpg", "battle_waterloo.jpg", "warship_model.jpg",
     "dutch_dollhouse.jpg" >>

\* The twelve narration files, in the order the three audio scripts share
AudioKeys ==
  << "night_watch.mp3", "milkmaid.mp3", "merry_drinker.mp3",
     "self_portrait_paul.mp3", "jewish_bride.mp3", "still_life.mp3",
     "threatened_swan.mp3", "winter_landscape.mp3", "delftware.mp3",
     "battle_waterloo.mp3", "warship_model.mp3", "dutch_dollhouse.mp3" >>

\* generate_audio_placeholders.py (filename: duration in seconds)
AUDIO_FILES == AudioKeys

duration ==
  [ f \in Range(AudioKeys) |->
      CASE f = "night_watch.mp3" -> 240
        [] f \in {"milkmaid.mp3", "self_portrait_paul.mp3", "jewish_bride.mp3",
                  "winter_landscape.mp3", "battle_waterloo.mp3",
                  "dutch_dollhouse.mp3"} -> 180
        [] OTHER -> 150 ]

\* generate_all_audio.py (keys of AUDIO_SCRIPTS)
AUDIO_SCRIPTS == AudioKeys

\* generate_audio_with_tts.py (keys of its own AUDIO_SCRIPTS)
TTS_AUDIO_SCRIPTS == AudioKeys

\* generate_pwa_icons.py
ICON_SIZES == << 72, 96, 128, 144, 152, 192, 384, 512 >>

\* verify_assets.py
REQUIRED_QR_CODES ==
  << "RIJKS-WELCOME.png", "RIJKS-NIGHTWATCH-001.png", "RIJKS-MILKMAID-002.png",
     "RIJKS-DRINKER-003.png", "RIJKS-REMBRANDT-SELF-004.png",
     "RIJKS-BRIDE-005.png", "RIJKS-STILLLIFE-006.png", "RIJKS-SWAN-007.png",
     "RIJKS-WINTER-008.png", "RIJKS-DELFTWARE-009.png",
     "RIJKS-WATERLOO-010.png", "RIJKS-WARSHIP-011.png",
     "RIJKS-DOLLHOUSE-012.png" >>

REQUIRED_IMAGES ==
  << "gallery_of_honour.jpg", "night_watch.jpg", "milkmaid.jpg",
     "merry_drinker.jpg", "self_portrait_paul.jpg", "jewish_bride.jpg",
     "still_life.jpg", "threatened_swan.jpg", "winter_landscape.jpg",
     "delftware.jpg", "battle_waterloo.jpg", "warship_model.jpg",
     "dutch_dollhouse.jpg" >>

REQUIRED_AUDIO ==
  << "night_watch.mp3", "milkmaid.mp3", "merry_drinker.mp3",
     "self_portrait_paul.mp3", "jewish_bride.mp3", "still_life.mp3",
     "threatened_swan.mp3", "winter_landscape.mp3", "delftware.mp3",
     "battle_waterloo.mp3", "warship_model.mp3", "dutch_dollhouse.mp3" >>

PWA_ICON_SIZES == << 72, 96, 128, 144, 152, 192, 384, 512 >>

(***************************************************************************)
(* Paths, as the scripts build them (f-strings and Path joins).            *)
(***************************************************************************)

\* the file name without its extension
QrOutPath_NoExtension(code) == "assets/qr_codes" \o "/" \o code

\* generate_qr_codes: f"{output_dir}/{code}.png", output_dir='assets/qr_codes'
QrOutPath(code) == "assets/qr_codes" \o "/" \o code \o ".png"

\* generate_placeholder_images: f"{output_dir}/{filename}"
ImageOutPath(filename) == "assets/images" \o "/" \o filename

\* download_rijksmuseum_images: output_dir / filename
DownloadOutPath(filename) == "assets/images" \o "/" \o filename

\* the audio scripts: f"assets/audio/en/{filename}", f"assets/audio/nl/{filename}"
AudioPath(lang, filename) == "assets/audio/" \o lang \o "/" \o filename

\* create_marker_files: f"assets/audio/en/{filename}.txt"
MarkerOutPath(lang, filename) == "assets/audio/" \o lang \o "/" \o filename \o ".txt"

\* generate_pwa_icons: f"{output_dir}/icon-{size}.png"
IconOutPath(size) == "../../web_runtime/icons" \o "/icon-" \o ToString(size) \o ".png"

\* verify_assets: the paths it checks
VerifyQrPath(qr_code) == "assets/qr_codes/" \o qr_code
VerifyImagePath(image) == "assets/images/" \o image
VerifyAudioPath(lang, audio) == "assets/audio/" \o lang \o "/" \o audio
VerifyMarkerPath(lang, audio) == "assets/audio/" \o lang \o "/" \o audio \o ".txt"
VerifyIconPath(size) == "../../web_runtime/icons/icon-" \o ToString(size) \o ".png"
story_path == "rijksmuseum_tour.whisker"

Langs == {"en", "nl"}

\* Every path some script writes or reads
AllPaths ==
  {QrOutPath(c) : c \in Range(QR_CODES)}
    \cup {ImageOutPath(f) : f \in Range(IMAGES)}
    \cup {DownloadOutPath(f) : f \in Range(ARTWORKS)}
    \cup {AudioPath(l, f) : l \in Langs, f \in Range(AudioKeys)}
    \cup {MarkerOutPath(l, f) : l \in Langs, f \in Range(AudioKeys)}
    \cup {IconOutPath(s) : s \in Range(ICON_SIZES)}
    \cup {VerifyQrPath(q) : q \in Range(REQUIRED_QR_CODES)}
    \cup {VerifyImagePath(i) : i \in Range(REQUIRED_IMAGES)}
    \cup {VerifyAudioPath(l, a) : l \in Langs, a \in Range(REQUIRED_AUDIO)}
    \cup {VerifyMarkerPath(l, a) : l \in Langs, a \in Range(REQUIRED_AUDIO)}
    \cup {VerifyIconPath(s) : s \in Range(PWA_ICON_SIZES)}
    \cup {story_path}

(***************************************************************************)
(* The file tree: a path holds no file, or a file with an origin (which    *)
(* script or outside source wrote it) and a size in bytes.                 *)
(***************************************************************************)
NoFile == [origin |-> "none", size |-> 0]
File(origin, size) == [origin |-> origin, size |-> size]
Exists(f) == f.origin # "none"
EmptyTree == [p \in AllPaths |-> NoFile]
WriteFile(tree, p, origin, size) == [tree EXCEPT ![p] = File(origin, size)]


\* The directory a path lies in
DirOf(p) ==
  CASE p \in {QrOutPath(c) : c \in Range(QR_CODES)} -> "assets/qr_codes"
    [] p \in {ImageOutPath(f) : f \in Range(IMAGES)} -> "assets/images"
    [] p \in {DownloadOutPath(f) : f \in Range(ARTWORKS)} -> "assets/images"
    [] p \in {AudioPath("en", f) : f \in Range(AudioKeys)} -> "assets/audio/en"
    [] p \in {MarkerOutPath("en", f) : f \in Range(AudioKeys)} -> "assets/audio/en"
    [] p \in {AudioPath("nl", f) : f \in Range(AudioKeys)} -> "assets/audio/nl"
    [] p \in {MarkerOutPath("nl", f) : f \in Range(AudioKeys)} -> "assets/audio/nl"
    [] p \in {IconOutPath(s) : s \in Range(ICON_SIZES)} -> "../../web_runtime/icons"
    [] OTHER -> "."

DirsOf(tree) == {DirOf(p) : p \in {q \in AllPaths : Exists(tree[q])}} \ {"."}

(***************************************************************************)
(* The scripts                                                             *)
(***************************************************************************)
Generators ==
  { "download_rijksmuseum_images", "generate_all_audio",
    "generate_audio_with_tts", "generate_audio_placeholders",
    "generate_placeholder_images", "generate_pwa_icons", "generate_qr_codes" }

Scripts == Generators \cup {"verify_assets"}

\* verify_assets: the keys of its results dictionary
Categories == {"qr_codes", "images", "audio_en", "audio_nl", "pwa_icons"}

EmptyResults ==
  [c \in Categories |-> [found |-> << >>, missing |-> << >>, total_size |-> 0]]

VARIABLES
  fs,              \* the file tree: path -> file
  dirs,            \* the directories that exist
  fs0,             \* the file tree before the first run
  order,           \* the runs recorded so far, in order: <<script, lib_ok>>
  completed,       \* the runs that returned normally: <<script, lib_ok>>
  script,          \* the script that runs or ran last
  lib_ok,          \* whether its third-party library can be imported
  pc,              \* idle | start | loop | the verifier's sections | done |
                   \* handled (exception caught in __main__) |
                   \* interrupted (KeyboardInterrupt caught in __main__) |
                   \* crashed (uncaught exception) | exit1 (exit(1))
  idx,             \* 1-based position in the script's mapping
  stage,           \* the step within the current entry
  success_count, failed_count,      \* download, generate_audio_with_tts
  generated, skipped, errors,       \* generate_all_audio
  minutes_defined, \* generate_audio_with_tts: minutes/seconds are bound
  trace,           \* the external calls issued in this run, in order
  attempted,       \* the output paths whose loop step was entered
  written,         \* the paths written in this run
  console,         \* the messages printed in this run
  results,         \* verify_assets: results[category]
  runs,            \* number of script runs started
  faults           \* number of exceptions raised in the runs: external calls
                   \* that raised, and interruptions

tree_vars == <<fs, dirs>>
hist_vars == <<fs0, order, completed>>
counters == <<success_count, failed_count, generated, skipped, errors, minutes_defined>>
vars ==
  <<fs, dirs, fs0, order, completed, script, lib_ok, pc, idx, stage, success_count,
    failed_count, generated, skipped, errors, minutes_defined, trace,
    attempted, written, console, results, runs, faults>>

TerminatedPcs == {"done", "handled", "interrupted", "crashed", "exit1"}
Terminated == pc \in TerminatedPcs

\* The process exit status of a terminated run
ExitStatus == IF pc \in {"crashed", "exit1"} THEN 1 ELSE 0

(***************************************************************************)
(* Initial file trees: an empty working directory, one with a few files    *)
(* left by earlier work, and a complete one; the tour file is missing,     *)
(* valid, not JSON, or JSON of another shape.                              *)
(***************************************************************************)
PartialTree ==
  [p \in AllPaths |->
     CASE p = ImageOutPath("gallery_of_honour.jpg") -> File("external", 60000)
       [] p = ImageOutPath("night_watch.jpg") -> File("external", 600000)
       [] p = AudioPath("en", "night_watch.mp3") -> File("external", 10000)
       [] p = AudioPath("nl", "night_watch.mp3") -> File("external", 10001)
       [] p = MarkerOutPath("en", "milkmaid.mp3") -> File("external", 120)
       [] p = QrOutPath("RIJKS-WELCOME") -> File("external", 900)
       [] p = IconOutPath(72) -> File("external", 700)
       [] OTHER -> NoFile]

FullTree ==
  [p \in AllPaths |->
     CASE p \in {VerifyMarkerPath(l, a) : l \in Langs, a \in Range(REQUIRED_AUDIO)} -> NoFile
       [] p = story_path -> NoFile
       [] OTHER -> File("external", 700000)]

BaseTrees == {EmptyTree, PartialTree, FullTree}
StoryKinds == {"none", "story_valid", "story_invalid", "story_odd"}

Init ==
  /\ \E base \in BaseTrees, k \in StoryKinds :
       fs = [base EXCEPT ![story_path] = IF k = "none" THEN NoFile ELSE File(k, 4000)]
  /\ dirs = DirsOf(fs)
  /\ fs0 = fs
  /\ order = << >>
  /\ completed = {}
  /\ script = "none"
  /\ lib_ok = TRUE
  /\ pc = "idle"
  /\ idx = 1
  /\ stage = ""
  /\ success_count = 0 /\ failed_count = 0
  /\ generated = 0 /\ skipped = 0 /\ errors = 0
  /\ minutes_defined = FALSE
  /\ trace = << >>
  /\ attempted = {}
  /\ written = {}
  /\ console = {}
  /\ results = EmptyResults
  /\ runs = 0
  /\ faults = 0

(***************************************************************************)
(* Starting a script: a fresh process, so every script variable is fresh.  *)
(***************************************************************************)
StartRun(s, ok) ==
  /\ pc = "idle" \/ Terminated
  /\ runs < MaxRuns
  /\ script' = s
  /\ lib_ok' = ok
  /\ pc' = "start"
  /\ idx' = 1
  /\ stage' = ""
  /\ success_count' = 0 /\ failed_count' = 0
  /\ generated' = 0 /\ skipped' = 0 /\ errors' = 0
  /\ minutes_defined' = FALSE
  /\ trace' = << >>
  /\ attempted' = {}
  /\ written' = {}
  /\ console' = {}
  /\ results' = EmptyResults
  /\ runs' = runs + 1
  /\ UNCHANGED <<fs, dirs, fs0, faults>>

Start(s, ok) == StartRun(s, ok) /\ UNCHANGED <<order, completed>>

\* The same, the run being recorded in order
StartRecorded(s, ok) ==
  /\ StartRun(s, ok)
  /\ order' = Append(order, <<s, ok>>)
  /\ completed' = completed

\* The same, the previous run being recorded in completed if it returned
\* normally
StartTracked(s, ok) ==
  /\ StartRun(s, ok)
  /\ completed' = IF pc = "done" THEN completed \cup {<<script, lib_ok>>} ELSE completed
  /\ order' = order

\* Path(...).mkdir(parents=True, exist_ok=True)
mkdir(ds, d) == ds \cup {d}

\* An uncaught exception ends the process with a traceback and status 1
Crash(what) ==
  /\ pc' = "crashed"
  /\ console' = console \cup {<<"Traceback", what>>}

(***************************************************************************)
(* generate_qr_codes.py                                                    *)
(***************************************************************************)
\* one pass of the loop body, img.save(filename) succeeding
QrItem(tree, code) == WriteFile(tree, QrOutPath(code), "qr", 1200)

\* "import qrcode" at module level, then generate_qr_codes() up to its loop
QrSetup ==
  /\ pc = "start" /\ script = "generate_qr_codes"
  /\ IF lib_ok
       THEN /\ dirs' = mkdir(dirs, "assets/qr_codes")
            /\ pc' = "loop"
            /\ console' = console
       ELSE /\ Crash("ImportError")
            /\ dirs' = dirs
  /\ UNCHANGED <<written, fs, hist_vars, script, lib_ok, idx, stage, counters, trace,
                 attempted, results, runs, faults>>

QrItemOk ==
  /\ pc = "loop" /\ script = "generate_qr_codes" /\ idx <= Len(QR_CODES)
  /\ LET code == QR_CODES[idx] IN
       /\ fs' = QrItem(fs, code)
       /\ trace' = Append(trace, <<"SAVE", QrOutPath(code), "ok">>)
       /\ attempted' = attempted \cup {QrOutPath(code)}
       /\ written' = written \cup {QrOutPath(code)}
       /\ console' = console \cup {<<"Generated", QrOutPath(code)>>}
  /\ idx' = idx + 1
  /\ UNCHANGED <<dirs, hist_vars, script, lib_ok, pc, stage, counters, results,
                 runs, faults>>

\* the loop body raises: no handler in the loop, and __main__ catches only
\* ImportError
QrItemFail ==
  /\ pc = "loop" /\ script = "generate_qr_codes" /\ idx <= Len(QR_CODES)
  /\ faults < MaxFaults
  /\ LET code == QR_CODES[idx] IN
       /\ trace' = Append(trace, <<"SAVE", QrOutPath(code), "raised">>)
       /\ attempted' = attempted \cup {QrOutPath(code)}
  /\ Crash("Exception")
  /\ faults' = faults + 1
  /\ UNCHANGED <<written, tree_vars, hist_vars, script, lib_ok, idx, stage, counters,
                 results, runs>>

QrSummary ==
  /\ pc = "loop" /\ script = "generate_qr_codes" /\ idx > Len(QR_CODES)
  /\ pc' = "done"
  /\ console' = console \cup {<<"All generated", "QR codes">>}
  /\ UNCHANGED <<written, tree_vars, hist_vars, script, lib_ok, idx, stage, counters,
                 trace, attempted, results, runs, faults>>

(***************************************************************************)
(* generate_placeholder_images.py                                          *)
(***************************************************************************)
\* one pass of the loop body, img.save(filepath, 'JPEG', ...) succeeding
PlaceholderItem(tree, filename) ==
  WriteFile(tree, ImageOutPath(filename), "placeholder", 60000)

\* "from PIL import ..." at module level, then the function up to its loop
PlaceholderSetup ==
  /\ pc = "start" /\ script = "generate_placeholder_images"
  /\ IF lib_ok
       THEN /\ dirs' = mkdir(dirs, "assets/images")
            /\ pc' = "loop"
            /\ console' = console
       ELSE /\ Crash("ImportError")
            /\ dirs' = dirs
  /\ UNCHANGED <<written, fs, hist_vars, script, lib_ok, idx, stage, counters, trace,
                 attempted, results, runs, faults>>

PlaceholderItemOk ==
  /\ pc = "loop" /\ script = "generate_placeholder_images" /\ idx <= Len(IMAGES)
  /\ LET filename == IMAGES[idx] IN
       /\ fs' = PlaceholderItem(fs, filename)
       /\ trace' = Append(trace, <<"SAVE", ImageOutPath(filename), "ok">>)
       /\ attempted' = attempted \cup {ImageOutPath(filename)}
       /\ written' = written \cup {ImageOutPath(filename)}
       /\ console' = console \cup {<<"Generated", ImageOutPath(filename)>>}
  /\ idx' = idx + 1
  /\ UNCHANGED <<dirs, hist_vars, script, lib_ok, pc, stage, counters, results,
                 runs, faults>>

\* the loop body raises: the exception leaves the function and is caught by
\* "except Exception" in __main__, which prints it and the manual
\* instructions
PlaceholderItemFail ==
  /\ pc = "loop" /\ script = "generate_placeholder_images" /\ idx <= Len(IMAGES)
  /\ faults < MaxFaults
  /\ LET filename == IMAGES[idx] IN
       /\ trace' = Append(trace, <<"SAVE", ImageOutPath(filename), "raised">>)
       /\ attempted' = attempted \cup {ImageOutPath(filename)}
  /\ pc' = "handled"
  /\ console' = console \cup {<<"Error", "generate_placeholder_images">>}
  /\ faults' = faults + 1
  /\ UNCHANGED <<written, tree_vars, hist_vars, script, lib_ok, idx, stage, counters,
                 results, runs>>

PlaceholderSummary ==
  /\ pc = "loop" /\ script = "generate_placeholder_images" /\ idx > Len(IMAGES)
  /\ pc' = "done"
  /\ console' = console \cup {<<"All generated", "placeholder images">>}
  /\ UNCHANGED <<written, tree_vars, hist_vars, script, lib_ok, idx, stage, counters,
                 trace, attempted, results, runs, faults>>

(***************************************************************************)
(* generate_pwa_icons.py                                                   *)
(***************************************************************************)
\* one pass of the loop body, icon.save(filename, 'PNG', ...) succeeding
IconItem(tree, size) == WriteFile(tree, IconOutPath(size), "placeholder", 2000)

IconSetup ==
  /\ pc = "start" /\ script = "generate_pwa_icons"
  /\ IF lib_ok
       THEN /\ dirs' = mkdir(dirs, "../../web_runtime/icons")
            /\ pc' = "loop"
            /\ console' = console
       ELSE /\ Crash("ImportError")
            /\ dirs' = dirs
  /\ UNCHANGED <<written, fs, hist_vars, script, lib_ok, idx, stage, counters, trace,
                 attempted, results, runs, faults>>

IconItemOk ==
  /\ pc = "loop" /\ script = "generate_pwa_icons" /\ idx <= Len(ICON_SIZES)
  /\ LET size == ICON_SIZES[idx] IN
       /\ fs' = IconItem(fs, size)
       /\ trace' = Append(trace, <<"SAVE", IconOutPath(size), "ok">>)
       /\ attempted' = attempted \cup {IconOutPath(size)}
       /\ written' = written \cup {IconOutPath(size)}
       /\ console' = console \cup {<<"Generated", IconOutPath(size)>>}
  /\ idx' = idx + 1
  /\ UNCHANGED <<dirs, hist_vars, script, lib_ok, pc, stage, counters, results,
                 runs, faults>>

\* caught by "except Exception" in __main__
IconItemFail ==
  /\ pc = "loop" /\ script = "generate_pwa_icons" /\ idx <= Len(ICON_SIZES)
  /\ faults < MaxFaults
  /\ LET size == ICON_SIZES[idx] IN
       /\ trace' = Append(trace, <<"SAVE", IconOutPath(size), "raised">>)
       /\ attempted' = attempted \cup {IconOutPath(size)}
  /\ pc' = "handled"
  /\ console' = console \cup {<<"Error", "generate_pwa_icons">>}
  /\ faults' = faults + 1
  /\ UNCHANGED <<written, tree_vars, hist_vars, script, lib_ok, idx, stage, counters,
                 results, runs>>

IconSummary ==
  /\ pc = "loop" /\ script = "generate_pwa_icons" /\ idx > Len(ICON_SIZES)
  /\ pc' = "done"
  /\ console' = console \cup {<<"All generated", "PWA icons">>}
  /\ UNCHANGED <<written, tree_vars, hist_vars, script, lib_ok, idx, stage, counters,
                 trace, attempted, results, runs, faults>>

(***************************************************************************)
(* generate_audio_placeholders.py                                          *)
(***************************************************************************)
\* create_silent_audio taking its seconds for milliseconds
create_silent_audio_Millis(tree, duration_seconds, output_path) ==
  WriteFile(tree, output_path, "placeholder", (duration_seconds * 16000) \div 1000)

\* create_silent_audio(duration, path): 128 kbit/s is 16000 bytes a second
create_silent_audio(tree, duration_seconds, output_path) ==
  WriteFile(tree, output_path, "placeholder", duration_seconds * 16000)

\* one marker file written by create_marker_files
MarkerItem(tree, lang, filename) ==
  WriteFile(tree, MarkerOutPath(lang, filename), "marker", 120)

\* The import is guarded (PYDUB_AVAILABLE); both branches make the two
\* audio directories before their loop.  stage is the language of the next
\* file of entry idx.
AudioPhSetup ==
  /\ pc = "start" /\ script = "generate_audio_placeholders"
  /\ dirs' = mkdir(mkdir(dirs, "assets/audio/en"), "assets/audio/nl")
  /\ pc' = IF lib_ok THEN "loop" ELSE "markers"
  /\ stage' = "en"
  /\ console' = console \cup
       {IF lib_ok THEN <<"pydub available", "">> ELSE <<"pydub not available", "">>}
  /\ UNCHANGED <<written, fs, hist_vars, script, lib_ok, idx, counters, trace,
                 attempted, results, runs, faults>>

\* the loop position after the file of language stage of entry idx
NextLangIdx == IF stage = "en" THEN idx ELSE idx + 1
NextLang == IF stage = "en" THEN "nl" ELSE "en"

AudioPhItemOk ==
  /\ pc = "loop" /\ script = "generate_audio_placeholders" /\ idx <= Len(AUDIO_FILES)
  /\ LET filename == AUDIO_FILES[idx]
         path == AudioPath(stage, filename) IN
       /\ fs' = create_silent_audio(fs, duration[filename], path)
       /\ trace' = Append(trace, <<"EXPORT", path, "ok">>)
       /\ attempted' = attempted \cup {path}
       /\ written' = written \cup {path}
       /\ console' = console \cup {<<"Generated", path>>}
  /\ idx' = NextLangIdx
  /\ stage' = NextLang
  /\ UNCHANGED <<dirs, hist_vars, script, lib_ok, pc, counters, results, runs,
                 faults>>

\* create_silent_audio raises: nothing catches it, in the loop or in __main__
AudioPhItemFail ==
  /\ pc = "loop" /\ script = "generate_audio_placeholders" /\ idx <= Len(AUDIO_FILES)
  /\ faults < MaxFaults
  /\ LET path == AudioPath(stage, AUDIO_FILES[idx]) IN
       /\ trace' = Append(trace, <<"EXPORT", path, "raised">>)
       /\ attempted' = attempted \cup {path}
  /\ Crash("Exception")
  /\ faults' = faults + 1
  /\ UNCHANGED <<written, tree_vars, hist_vars, script, lib_ok, idx, stage, counters,
                 results, runs>>

AudioPhSummary ==
  /\ pc = "loop" /\ script = "generate_audio_placeholders" /\ idx > Len(AUDIO_FILES)
  /\ pc' = "done"
  /\ console' = console \cup {<<"All generated", "placeholder audio files">>}
  /\ UNCHANGED <<written, tree_vars, hist_vars, script, lib_ok, idx, stage, counters,
                 trace, attempted, results, runs, faults>>

\* create_marker_files, one "with open(marker, 'w')" block
MarkerItemOk ==
  /\ pc = "markers" /\ script = "generate_audio_placeholders" /\ idx <= Len(AUDIO_FILES)
  /\ LET filename == AUDIO_FILES[idx]
         path == MarkerOutPath(stage, filename) IN
       /\ fs' = MarkerItem(fs, stage, filename)
       /\ trace' = Append(trace, <<"WRITE", path, "ok">>)
       /\ attempted' = attempted \cup {path}
       /\ written' = written \cup {path}
       /\ console' = console \cup {<<"Created marker", path>>}
  /\ idx' = NextLangIdx
  /\ stage' = NextLang
  /\ UNCHANGED <<dirs, hist_vars, script, lib_ok, pc, counters, results, runs,
                 faults>>

\* open() raises: uncaught
MarkerItemFail ==
  /\ pc = "markers" /\ script = "generate_audio_placeholders" /\ idx <= Len(AUDIO_FILES)
  /\ faults < MaxFaults
  /\ LET path == MarkerOutPath(stage, AUDIO_FILES[idx]) IN
       /\ trace' = Append(trace, <<"WRITE", path, "raised">>)
       /\ attempted' = attempted \cup {path}
  /\ Crash("Exception")
  /\ faults' = faults + 1
  /\ UNCHANGED <<written, tree_vars, hist_vars, script, lib_ok, idx, stage, counters,
                 results, runs>>

MarkerSummary ==
  /\ pc = "markers" /\ script = "generate_audio_placeholders" /\ idx > Len(AUDIO_FILES)
  /\ pc' = "done"
  /\ console' = console \cup {<<"Created marker files", "24">>}
  /\ UNCHANGED <<written, tree_vars, hist_vars, script, lib_ok, idx, stage, counters,
                 trace, attempted, results, runs, faults>>

(***************************************************************************)
(* download_rijksmuseum_images.py                                          *)
(***************************************************************************)
\* How one call of download_and_optimize_image goes.  img.save(output_path)
\* writes the file itself: it can raise before it has opened output_path
\* ("save_error") or after it has opened it for writing and written a part
\* ("write_error").
DownloadFailures == {"http_error", "decode_error", "save_error", "write_error"}
DownloadOutcomes == {"ok"} \cup DownloadFailures

\* download_and_optimize_image returning True whenever the image was decoded,
\* whether or not the save raised
download_and_optimize_image_TrueAfterDecode(tree, url, output_path, outcome) ==
  [ ok |-> outcome \in {"ok", "save_error", "write_error"},
    tree |-> CASE outcome = "ok" -> WriteFile(tree, output_path, "real", 600000)
               [] outcome = "write_error" -> WriteFile(tree, output_path, "partial", 0)
               [] OTHER -> tree,
    calls |-> CASE outcome = "ok" ->
                     << <<"GET", url, "ok">>, <<"OPEN", url, "ok">>,
                        <<"SAVE", output_path, "ok">> >>
                [] outcome = "http_error" -> << <<"GET", url, "raised">> >>
                [] outcome = "decode_error" ->
                     << <<"GET", url, "ok">>, <<"OPEN", url, "raised">> >>
                [] outcome \in {"save_error", "write_error"} ->
                     << <<"GET", url, "ok">>, <<"OPEN", url, "ok">>,
                        <<"SAVE", output_path, "raised">> >> ]

\* download_and_optimize_image(url, output_path): requests.get and
\* raise_for_status, Image.open, convert, thumbnail, img.save; any exception
\* is caught and printed, and the function returns False.
download_and_optimize_image(tree, url, output_path, outcome) ==
  [ ok |-> outcome = "ok",
    tree |-> CASE outcome = "ok" -> WriteFile(tree, output_path, "real", 600000)
               [] outcome = "write_error" -> WriteFile(tree, output_path, "partial", 0)
               [] OTHER -> tree,
    calls |-> CASE outcome = "ok" ->
                     << <<"GET", url, "ok">>, <<"OPEN", url, "ok">>,
                        <<"SAVE", output_path, "ok">> >>
                [] outcome = "http_error" -> << <<"GET", url, "raised">> >>
                [] outcome = "decode_error" ->
                     << <<"GET", url, "ok">>, <<"OPEN", url, "raised">> >>
                [] outcome \in {"save_error", "write_error"} ->
                     << <<"GET", url, "ok">>, <<"OPEN", url, "ok">>,
                        <<"SAVE", output_path, "raised">> >> ]

\* Python truthiness of a URL or None
Truthy(url) == url \notin {"None", ""}

\* get_rijksmuseum_image_url asking the API whether or not a key is given
get_rijksmuseum_image_url_AlwaysRequests(obj, api_key, api_outcome) ==
  [ url |-> IF api_outcome = "ok" THEN "webImage:" \o obj ELSE "None",
    calls |-> << <<"GET", "https://www.rijksmuseum.nl/api/en/collection/" \o obj, api_outcome>> >> ]

\* get_rijksmuseum_image_url returning None when no API key is given
get_rijksmuseum_image_url_NoneWithoutKey(obj, api_key, api_outcome) ==
  IF ~Truthy(api_key)
    THEN [ url |-> "None", calls |-> << >> ]
    ELSE [ url |-> IF api_outcome = "ok" THEN "webImage:" \o obj ELSE "None",
           calls |-> << <<"GET", "https://www.rijksmuseum.nl/api/en/collection/" \o obj, api_outcome>> >> ]

\* get_rijksmuseum_image_url(object_number, api_key=None); api_outcome is
\* how the API request goes when a key is given
get_rijksmuseum_image_url(obj, api_key, api_outcome) ==
  IF ~Truthy(api_key)
    THEN [ url |-> "https://lh3.googleusercontent.com/proxy/" \o obj,
           calls |-> << >> ]
    ELSE [ url |-> IF api_outcome = "ok" THEN "webImage:" \o obj ELSE "None",
           calls |-> << <<"GET", "https://www.rijksmuseum.nl/api/en/collection/" \o obj, api_outcome>> >> ]

\* One pass of the loop body with every download succeeding
DownloadItem(tree, filename) ==
  IF filename \in DOMAIN direct_urls
    THEN download_and_optimize_image(tree, direct_urls[filename],
                                     DownloadOutPath(filename), "ok").tree
    ELSE IF /\ filename \in DOMAIN object_number
            /\ Truthy(get_rijksmuseum_image_url(object_number[filename], "None", "ok").url)
      THEN download_and_optimize_image(
             tree, get_rijksmuseum_image_url(object_number[filename], "None", "ok").url,
             DownloadOutPath(filename), "ok").tree
      ELSE tree

\* "import requests", "from PIL import Image" at module level, then the
\* function up to its loop.  stage: direct | api | fallback.
DlSetup ==
  /\ pc = "start" /\ script = "download_rijksmuseum_images"
  /\ IF lib_ok
       THEN /\ dirs' = mkdir(dirs, "assets/images")
            /\ pc' = "loop"
            /\ stage' = "direct"
            /\ console' = console
       ELSE /\ Crash("ImportError")
            /\ dirs' = dirs
            /\ stage' = stage
  /\ UNCHANGED <<written, fs, hist_vars, script, lib_ok, idx, counters, trace,
                 attempted, results, runs, faults>>

\* "if 'object_number' in info: url = get_rijksmuseum_image_url(...);
\*  if url and download_and_optimize_image(url, output_path)"
ApiUrl == get_rijksmuseum_image_url(object_number[ARTWORKS[idx]], "None", "ok")
HasApiUrl == ARTWORKS[idx] \in DOMAIN object_number /\ Truthy(ApiUrl.url)

\* the requests get_rijksmuseum_image_url issues for entry idx at the
\* object-number stage
ApiCalls ==
  IF stage = "api" /\ ARTWORKS[idx] \in DOMAIN object_number THEN ApiUrl.calls ELSE << >>

\* One download attempt after whose failure the batch starts over
DlAttempt_StartOver(url, outcome, next_stage) ==
  LET filename == ARTWORKS[idx]
      output_path == DownloadOutPath(filename)
      r == download_and_optimize_image(fs, url, output_path, outcome) IN
    /\ fs' = r.tree
    /\ attempted' = attempted \cup {output_path}
    /\ IF r.ok
         THEN /\ success_count' = success_count + 1
              /\ trace' = trace \o ApiCalls \o r.calls \o << <<"SLEEP", "0.5", "ok">> >>
              /\ written' = written \cup {output_path}
              /\ console' = console \cup {<<"Saved", output_path>>}
              /\ idx' = idx + 1
              /\ stage' = "direct"
         ELSE /\ success_count' = success_count
              /\ trace' = trace \o ApiCalls \o r.calls
              /\ written' = written
              /\ console' = console \cup {<<"Error", output_path>>}
              /\ idx' = 1
              /\ stage' = "direct"
    /\ UNCHANGED <<dirs, hist_vars, script, lib_ok, pc, failed_count, generated,
                   skipped, errors, minutes_defined, results, runs>>

\* One download attempt after whose success the loop body goes on to the
\* next source instead of the next entry (no "continue")
DlAttempt_NoContinue(url, outcome, next_stage) ==
  LET filename == ARTWORKS[idx]
      output_path == DownloadOutPath(filename)
      r == download_and_optimize_image(fs, url, output_path, outcome) IN
    /\ fs' = r.tree
    /\ attempted' = attempted \cup {output_path}
    /\ IF r.ok
         THEN /\ success_count' = success_count + 1
              /\ trace' = trace \o ApiCalls \o r.calls \o << <<"SLEEP", "0.5", "ok">> >>
              /\ written' = written \cup {output_path}
              /\ console' = console \cup {<<"Saved", output_path>>}
              /\ idx' = idx
              /\ stage' = next_stage
         ELSE /\ success_count' = success_count
              /\ trace' = trace \o ApiCalls \o r.calls
              /\ written' = written
              /\ console' = console \cup {<<"Error", output_path>>}
              /\ idx' = idx
              /\ stage' = next_stage
    /\ UNCHANGED <<dirs, hist_vars, script, lib_ok, pc, failed_count, generated,
                   skipped, errors, minutes_defined, results, runs>>

\* One download attempt that is made again from the same source after it
\* failed
DlAttempt_Retry(url, outcome, next_stage) ==
  LET filename == ARTWORKS[idx]
      output_path == DownloadOutPath(filename)
      r == download_and_optimize_image(fs, url, output_path, outcome) IN
    /\ fs' = r.tree
    /\ attempted' = attempted \cup {output_path}
    /\ IF r.ok
         THEN /\ success_count' = success_count + 1
              /\ trace' = trace \o ApiCalls \o r.calls \o << <<"SLEEP", "0.5", "ok">> >>
              /\ written' = written \cup {output_path}
              /\ console' = console \cup {<<"Saved", output_path>>}
              /\ idx' = idx + 1
              /\ stage' = "direct"
         ELSE /\ success_count' = success_count
              /\ trace' = trace \o ApiCalls \o r.calls
              /\ written' = written
              /\ console' = console \cup {<<"Error", output_path>>}
              /\ idx' = idx
              /\ stage' = stage
    /\ UNCHANGED <<dirs, hist_vars, script, lib_ok, pc, failed_count, generated,
                   skipped, errors, minutes_defined, results, runs>>

\* The effect of one download attempt of entry idx from url at the given
\* stage: on success count, sleep and continue; otherwise fall through
DlAttempt(url, outcome, next_stage) ==
  LET filename == ARTWORKS[idx]
      output_path == DownloadOutPath(filename)
      r == download_and_optimize_image(fs, url, output_path, outcome) IN
    /\ fs' = r.tree
    /\ attempted' = attempted \cup {output_path}
    /\ IF r.ok
         THEN /\ success_count' = success_count + 1
              /\ trace' = trace \o ApiCalls \o r.calls \o << <<"SLEEP", "0.5", "ok">> >>
              /\ written' = written \cup {output_path}
              /\ console' = console \cup {<<"Saved", output_path>>}
              /\ idx' = idx + 1
              /\ stage' = "direct"
         ELSE /\ success_count' = success_count
              /\ trace' = trace \o ApiCalls \o r.calls
              /\ written' = written
              /\ console' = console \cup {<<"Error", output_path>>}
              /\ idx' = idx
              /\ stage' = next_stage
    /\ UNCHANGED <<dirs, hist_vars, script, lib_ok, pc, failed_count, generated,
                   skipped, errors, minutes_defined, results, runs>>

\* "if filename in direct_urls: if download_and_optimize_image(...)"
DlDirectOk ==
  /\ pc = "loop" /\ script = "download_rijksmuseum_images" /\ idx <= Len(ARTWORKS)
  /\ stage = "direct"
  /\ ARTWORKS[idx] \in DOMAIN direct_urls
  /\ DlAttempt(direct_urls[ARTWORKS[idx]], "ok", "api")
  /\ faults' = faults

DlDirectFail ==
  /\ pc = "loop" /\ script = "download_rijksmuseum_images" /\ idx <= Len(ARTWORKS)
  /\ stage = "direct"
  /\ ARTWORKS[idx] \in DOMAIN direct_urls
  /\ faults < MaxFaults
  /\ \E outcome \in DownloadFailures :
       DlAttempt(direct_urls[ARTWORKS[idx]], outcome, "api")
  /\ faults' = faults + 1

\* no direct URL for this entry
DlDirectNone ==
  /\ pc = "loop" /\ script = "download_rijksmuseum_images" /\ idx <= Len(ARTWORKS)
  /\ stage = "direct"
  /\ ARTWORKS[idx] \notin DOMAIN direct_urls
  /\ stage' = "api"
  /\ attempted' = attempted \cup {DownloadOutPath(ARTWORKS[idx])}
  /\ UNCHANGED <<written, tree_vars, hist_vars, script, lib_ok, pc, idx, counters,
                 trace, console, results, runs, faults>>

DlApiOk ==
  /\ pc = "loop" /\ script = "download_rijksmuseum_images" /\ idx <= Len(ARTWORKS)
  /\ stage = "api"
  /\ HasApiUrl
  /\ DlAttempt(ApiUrl.url, "ok", "fallback")
  /\ faults' = faults

DlApiFail ==
  /\ pc = "loop" /\ script = "download_rijksmuseum_images" /\ idx <= Len(ARTWORKS)
  /\ stage = "api"
  /\ HasApiUrl
  /\ faults < MaxFaults
  /\ \E outcome \in DownloadFailures :
       DlAttempt(ApiUrl.url, outcome, "fallback")
  /\ faults' = faults + 1

\* no object number for this entry, or no URL for it
DlApiNone ==
  /\ pc = "loop" /\ script = "download_rijksmuseum_images" /\ idx <= Len(ARTWORKS)
  /\ stage = "api"
  /\ ~HasApiUrl
  /\ stage' = "fallback"
  /\ trace' = trace \o ApiCalls
  /\ UNCHANGED <<written, tree_vars, hist_vars, script, lib_ok, pc, idx, counters,
                 attempted, console, results, runs, faults>>

\* the fallback that prints "Using existing placeholder" without counting
\* the entry
DlFallback_NoCount ==
  /\ pc = "loop" /\ script = "download_rijksmuseum_images" /\ idx <= Len(ARTWORKS)
  /\ stage = "fallback"
  /\ LET output_path == DownloadOutPath(ARTWORKS[idx]) IN
       IF Exists(fs[output_path])
         THEN /\ success_count' = success_count
              /\ failed_count' = failed_count
              /\ console' = console \cup {<<"Using existing placeholder", output_path>>}
         ELSE /\ failed_count' = failed_count + 1
              /\ success_count' = success_count
              /\ console' = console \cup {<<"Could not download", output_path>>}
  /\ idx' = idx + 1
  /\ stage' = "direct"
  /\ UNCHANGED <<written, tree_vars, hist_vars, script, lib_ok, pc, generated,
                 skipped, errors, minutes_defined, trace, attempted, results,
                 runs, faults>>

\* "Keep existing placeholder if download fails"
DlFallback ==
  /\ pc = "loop" /\ script = "download_rijksmuseum_images" /\ idx <= Len(ARTWORKS)
  /\ stage = "fallback"
  /\ LET output_path == DownloadOutPath(ARTWORKS[idx]) IN
       IF Exists(fs[output_path])
         THEN /\ success_count' = success_count + 1
              /\ failed_count' = failed_count
              /\ console' = console \cup {<<"Using existing placeholder", output_path>>}
         ELSE /\ failed_count' = failed_count + 1
              /\ success_count' = success_count
              /\ console' = console \cup {<<"Could not download", output_path>>}
  /\ idx' = idx + 1
  /\ stage' = "direct"
  /\ UNCHANGED <<written, tree_vars, hist_vars, script, lib_ok, pc, generated,
                 skipped, errors, minutes_defined, trace, attempted, results,
                 runs, faults>>

DlSummary ==
  /\ pc = "loop" /\ script = "download_rijksmuseum_images" /\ idx > Len(ARTWORKS)
  /\ pc' = "done"
  /\ console' = console \cup
       ({<<"Successfully processed", ToString(success_count) \o "/13">>}
        \cup IF failed_count > 0
               THEN {<<"Using placeholders", ToString(failed_count) \o "/13">>}
               ELSE {})
  /\ UNCHANGED <<written, tree_vars, hist_vars, script, lib_ok, idx, stage, counters,
                 trace, attempted, results, runs, faults>>

(***************************************************************************)
(* generate_all_audio.py                                                   *)
(***************************************************************************)
\* the size test taking the threshold in kilobytes
AlreadyExists_Kilobytes(tree, path) ==
  Exists(tree[path]) /\ tree[path].size \div 1024 > 10000

\* the size test that also accepts a file of exactly 10000 bytes
AlreadyExists_AtLeast(tree, path) == Exists(tree[path]) /\ tree[path].size >= 10000

\* the size test with one zero too many
AlreadyExists_Threshold(tree, path) == Exists(tree[path]) /\ tree[path].size > 100000

\* "Path(p).exists() and Path(p).stat().st_size > 10000"
AlreadyExists(tree, path) == Exists(tree[path]) /\ tree[path].size > 10000

\* gTTS(...).save(path) succeeding
tts_save(tree, path) == WriteFile(tree, path, "real", 300000)

\* One language of one entry, the TTS call succeeding
AllAudioItem(tree, lang, filename) ==
  IF AlreadyExists(tree, AudioPath(lang, filename))
    THEN tree
    ELSE tts_save(tree, AudioPath(lang, filename))

\* The guarded import prints and calls exit(1) when gTTS is missing
AllAudioSetup ==
  /\ pc = "start" /\ script = "generate_all_audio"
  /\ IF lib_ok
       THEN /\ dirs' = mkdir(mkdir(dirs, "assets/audio/en"), "assets/audio/nl")
            /\ pc' = "loop"
            /\ stage' = "en"
            /\ console' = console
       ELSE /\ pc' = "exit1"
            /\ console' = console \cup {<<"gTTS not available", "">>}
            /\ dirs' = dirs
            /\ stage' = stage
  /\ UNCHANGED <<written, fs, hist_vars, script, lib_ok, idx, counters, trace,
                 attempted, results, runs, faults>>

AllAudioSkip ==
  /\ pc = "loop" /\ script = "generate_all_audio" /\ idx <= Len(AUDIO_SCRIPTS)
  /\ LET path == AudioPath(stage, AUDIO_SCRIPTS[idx]) IN
       /\ AlreadyExists(fs, path)
       /\ attempted' = attempted \cup {path}
       /\ console' = console \cup {<<"Already exists, skipping", path>>}
  /\ skipped' = skipped + 1
  /\ idx' = NextLangIdx
  /\ stage' = NextLang
  /\ UNCHANGED <<written, tree_vars, hist_vars, script, lib_ok, pc, success_count,
                 failed_count, generated, errors, minutes_defined, trace,
                 results, runs, faults>>

AllAudioGenOk ==
  /\ pc = "loop" /\ script = "generate_all_audio" /\ idx <= Len(AUDIO_SCRIPTS)
  /\ LET path == AudioPath(stage, AUDIO_SCRIPTS[idx]) IN
       /\ ~AlreadyExists(fs, path)
       /\ fs' = AllAudioItem(fs, stage, AUDIO_SCRIPTS[idx])
       /\ trace' = trace \o << <<"TTS", path, "ok">>, <<"SLEEP", "0.5", "ok">> >>
       /\ attempted' = attempted \cup {path}
       /\ written' = written \cup {path}
       /\ console' = console \cup {<<"Generated", path>>}
  /\ generated' = generated + 1
  /\ idx' = NextLangIdx
  /\ stage' = NextLang
  /\ UNCHANGED <<dirs, hist_vars, script, lib_ok, pc, success_count,
                 failed_count, skipped, errors, minutes_defined, results, runs,
                 faults>>

\* the try block raises: "except Exception" prints and counts an error
AllAudioGenFail ==
  /\ pc = "loop" /\ script = "generate_all_audio" /\ idx <= Len(AUDIO_SCRIPTS)
  /\ faults < MaxFaults
  /\ LET path == AudioPath(stage, AUDIO_SCRIPTS[idx]) IN
       /\ ~AlreadyExists(fs, path)
       /\ trace' = Append(trace, <<"TTS", path, "raised">>)
       /\ attempted' = attempted \cup {path}
       /\ console' = console \cup {<<"Error", path>>}
  /\ errors' = errors + 1
  /\ idx' = NextLangIdx
  /\ stage' = NextLang
  /\ faults' = faults + 1
  /\ UNCHANGED <<written, tree_vars, hist_vars, script, lib_ok, pc, success_count,
                 failed_count, generated, skipped, minutes_defined, results,
                 runs>>

\* total_files = len(AUDIO_SCRIPTS) * 2
total_files == Len(AUDIO_SCRIPTS) * 2

AllAudioSummary ==
  /\ pc = "loop" /\ script = "generate_all_audio" /\ idx > Len(AUDIO_SCRIPTS)
  /\ pc' = "done"
  /\ console' = console \cup
       ({ <<"Total ready", ToString(generated + skipped) \o "/" \o ToString(total_files)>>,
          <<"All audio files complete!", "">> }
        \cup IF errors > 0 THEN {<<"Errors", ToString(errors)>>} ELSE {})
  /\ UNCHANGED <<written, tree_vars, hist_vars, script, lib_ok, idx, stage, counters,
                 trace, attempted, results, runs, faults>>

(***************************************************************************)
(* generate_audio_with_tts.py                                              *)
(***************************************************************************)
\* One language of one entry, the TTS call succeeding
TtsItem(tree, lang, filename) == tts_save(tree, AudioPath(lang, filename))

\* The import is guarded; generate_audio_files prints and returns when gTTS
\* is missing, before it makes the directories
TtsSetup ==
  /\ pc = "start" /\ script = "generate_audio_with_tts"
  /\ IF lib_ok
       THEN /\ dirs' = mkdir(mkdir(dirs, "assets/audio/en"), "assets/audio/nl")
            /\ pc' = "loop"
            /\ stage' = "en"
            /\ console' = console \cup {<<"gTTS available", "">>}
       ELSE /\ pc' = "done"
            /\ console' = console \cup {<<"gTTS not available", "">>}
            /\ dirs' = dirs
            /\ stage' = stage
  /\ UNCHANGED <<written, fs, hist_vars, script, lib_ok, idx, counters, trace,
                 attempted, results, runs, faults>>

\* English try block: save, then minutes/seconds are bound, print, count
TtsEnOk ==
  /\ pc = "loop" /\ script = "generate_audio_with_tts" /\ idx <= Len(TTS_AUDIO_SCRIPTS)
  /\ stage = "en"
  /\ LET path == AudioPath("en", TTS_AUDIO_SCRIPTS[idx]) IN
       /\ fs' = TtsItem(fs, "en", TTS_AUDIO_SCRIPTS[idx])
       /\ trace' = Append(trace, <<"TTS", path, "ok">>)
       /\ attempted' = attempted \cup {path}
       /\ written' = written \cup {path}
       /\ console' = console \cup {<<"Generated", path>>}
  /\ success_count' = success_count + 1
  /\ minutes_defined' = TRUE
  /\ stage' = "nl"
  /\ UNCHANGED <<dirs, hist_vars, script, lib_ok, pc, idx, failed_count,
                 generated, skipped, errors, results, runs, faults>>

TtsEnFail ==
  /\ pc = "loop" /\ script = "generate_audio_with_tts" /\ idx <= Len(TTS_AUDIO_SCRIPTS)
  /\ stage = "en"
  /\ faults < MaxFaults
  /\ LET path == AudioPath("en", TTS_AUDIO_SCRIPTS[idx]) IN
       /\ trace' = Append(trace, <<"TTS", path, "raised">>)
       /\ attempted' = attempted \cup {path}
       /\ console' = console \cup {<<"Error", path>>}
  /\ stage' = "nl"
  /\ faults' = faults + 1
  /\ UNCHANGED <<written, tree_vars, hist_vars, script, lib_ok, pc, idx, counters,
                 results, runs>>

\* Dutch try block: save, then the print reads minutes and seconds, which
\* only the English block binds: unbound, it raises NameError, which the
\* except clause reports as an error, after the file was saved and before
\* success_count += 1
TtsNlOk ==
  /\ pc = "loop" /\ script = "generate_audio_with_tts" /\ idx <= Len(TTS_AUDIO_SCRIPTS)
  /\ stage = "nl"
  /\ LET path == AudioPath("nl", TTS_AUDIO_SCRIPTS[idx]) IN
       /\ fs' = TtsItem(fs, "nl", TTS_AUDIO_SCRIPTS[idx])
       /\ trace' = Append(trace, <<"TTS", path, "ok">>)
       /\ attempted' = attempted \cup {path}
       /\ written' = written \cup {path}
       /\ console' = console \cup
            {IF minutes_defined THEN <<"Generated", path>> ELSE <<"Error", path>>}
  /\ success_count' = IF minutes_defined THEN success_count + 1 ELSE success_count
  /\ idx' = idx + 1
  /\ stage' = "en"
  /\ UNCHANGED <<dirs, hist_vars, script, lib_ok, pc, failed_count, generated,
                 skipped, errors, minutes_defined, results, runs, faults>>

TtsNlFail ==
  /\ pc = "loop" /\ script = "generate_audio_with_tts" /\ idx <= Len(TTS_AUDIO_SCRIPTS)
  /\ stage = "nl"
  /\ faults < MaxFaults
  /\ LET path == AudioPath("nl", TTS_AUDIO_SCRIPTS[idx]) IN
       /\ trace' = Append(trace, <<"TTS", path, "raised">>)
       /\ attempted' = attempted \cup {path}
       /\ console' = console \cup {<<"Error", path>>}
  /\ idx' = idx + 1
  /\ stage' = "en"
  /\ faults' = faults + 1
  /\ UNCHANGED <<written, tree_vars, hist_vars, script, lib_ok, pc, counters,
                 results, runs>>

TtsSummary ==
  /\ pc = "loop" /\ script = "generate_audio_with_tts" /\ idx > Len(TTS_AUDIO_SCRIPTS)
  /\ pc' = "done"
  /\ console' = console \cup {<<"Generated audio files", ToString(success_count)>>}
  /\ UNCHANGED <<written, tree_vars, hist_vars, script, lib_ok, idx, stage, counters,
                 trace, attempted, results, runs, faults>>

(***************************************************************************)
(* verify_assets.py                                                        *)
(***************************************************************************)
\* check_file_exists(filepath): (True, size) or (False, 0)
check_file_exists(tree, filepath) ==
  IF Exists(tree[filepath])
    THEN [exists |-> TRUE, size |-> tree[filepath].size]
    ELSE [exists |-> FALSE, size |-> 0]

\* The body of the QR, image and icon loops: names[i] is checked at paths[i].
\* total_size is never negative; the test on it has TLC work the result out
\* name by name, as the loop does.
RECURSIVE CheckFiles(_, _, _, _, _)
CheckFiles(tree, names, paths, i, r) ==
  IF i > Len(names) \/ r.total_size < 0 THEN r
  ELSE LET c == check_file_exists(tree, paths[i]) IN
    CheckFiles(tree, names, paths, i + 1,
      IF c.exists
        THEN [r EXCEPT !.found = Append(@, names[i]), !.total_size = @ + c.size]
        ELSE [r EXCEPT !.missing = Append(@, names[i])])

\* The body of the two audio loops: the MP3, else its .txt marker
RECURSIVE CheckAudio(_, _, _, _)
CheckAudio(tree, lang, i, r) ==
  IF i > Len(REQUIRED_AUDIO) \/ r.total_size < 0 THEN r
  ELSE LET audio == REQUIRED_AUDIO[i]
           c == check_file_exists(tree, VerifyAudioPath(lang, audio))
           m == check_file_exists(tree, VerifyMarkerPath(lang, audio)) IN
    CheckAudio(tree, lang, i + 1,
      IF c.exists
        THEN [r EXCEPT !.found = Append(@, audio), !.total_size = @ + c.size]
        ELSE IF m.exists
          THEN [r EXCEPT !.found = Append(@, audio \o ".txt")]
          ELSE [r EXCEPT !.missing = Append(@, audio)])

IconNames == [i \in 1..Len(PWA_ICON_SIZES) |-> "icon-" \o ToString(PWA_ICON_SIZES[i]) \o ".png"]

\* A section of verify_assets leaves everything but its own variables alone
VerifyFrame ==
  UNCHANGED <<written, tree_vars, hist_vars, script, lib_ok, idx, stage, counters,
              trace, attempted, runs, faults>>

VerifyQr ==
  /\ pc = "start" /\ script = "verify_assets"
  /\ results' = [results EXCEPT !["qr_codes"] =
       CheckFiles(fs, REQUIRED_QR_CODES,
                  [i \in 1..Len(REQUIRED_QR_CODES) |-> VerifyQrPath(REQUIRED_QR_CODES[i])],
                  1, @)]
  /\ pc' = "images"
  /\ console' = console
  /\ VerifyFrame

VerifyImages ==
  /\ pc = "images" /\ script = "verify_assets"
  /\ results' = [results EXCEPT !["images"] =
       CheckFiles(fs, REQUIRED_IMAGES,
                  [i \in 1..Len(REQUIRED_IMAGES) |-> VerifyImagePath(REQUIRED_IMAGES[i])],
                  1, @)]
  /\ pc' = "audio_en"
  /\ console' = console
  /\ VerifyFrame

VerifyAudioEn ==
  /\ pc = "audio_en" /\ script = "verify_assets"
  /\ results' = [results EXCEPT !["audio_en"] = CheckAudio(fs, "en", 1, @)]
  /\ pc' = "audio_nl"
  /\ console' = console
  /\ VerifyFrame

VerifyAudioNl ==
  /\ pc = "audio_nl" /\ script = "verify_assets"
  /\ results' = [results EXCEPT !["audio_nl"] = CheckAudio(fs, "nl", 1, @)]
  /\ pc' = "icons"
  /\ console' = console
  /\ VerifyFrame

VerifyIcons ==
  /\ pc = "icons" /\ script = "verify_assets"
  /\ results' = [results EXCEPT !["pwa_icons"] =
       CheckFiles(fs, IconNames,
                  [i \in 1..Len(PWA_ICON_SIZES) |-> VerifyIconPath(PWA_ICON_SIZES[i])],
                  1, @)]
  /\ pc' = "story"
  /\ console' = console
  /\ VerifyFrame

\* What the tour-story section prints: the file is opened for reading and
\* parsed inside try/except Exception
StoryReport(tree) ==
  LET c == check_file_exists(tree, story_path) IN
    IF ~c.exists THEN {<<"rijksmuseum_tour.whisker", "MISSING">>}
    ELSE {<<"rijksmuseum_tour.whisker", "found">>} \cup
      CASE tree[story_path].origin = "story_valid" ->
             {<<"Valid JSON", "">>, <<"Format", "">>, <<"Passages", "">>, <<"Title", "">>}
        [] tree[story_path].origin = "story_odd" ->
             {<<"Valid JSON", "">>, <<"JSON Error", "">>}
        [] OTHER -> {<<"JSON Error", "">>}

\* the tour file parsed outside any try block: a file that is not JSON, or
\* not of the expected shape, ends the run with the exception
VerifyStory_Uncaught ==
  /\ pc = "story" /\ script = "verify_assets"
  /\ IF  /\ Exists(fs[story_path])
         /\ fs[story_path].origin # "story_valid"
       THEN Crash("JSONDecodeError")
       ELSE /\ console' = console \cup StoryReport(fs)
            /\ pc' = "summary"
  /\ results' = results
  /\ VerifyFrame

\* the tour file opened for writing: it is created or truncated
VerifyStory_OpensForWriting ==
  /\ pc = "story" /\ script = "verify_assets"
  /\ fs' = WriteFile(fs, story_path, "verify", 0)
  /\ console' = console \cup StoryReport(fs)
  /\ pc' = "summary"
  /\ UNCHANGED <<written, dirs, hist_vars, script, lib_ok, idx, stage, counters,
                 trace, attempted, runs, faults, results>>

VerifyStory ==
  /\ pc = "story" /\ script = "verify_assets"
  /\ console' = console \cup StoryReport(fs)
  /\ pc' = "summary"
  /\ results' = results
  /\ VerifyFrame

\* categories = [(name, required, found), ...] of the summary
CategoryOrder == << "qr_codes", "images", "audio_en", "audio_nl", "pwa_icons" >>

Required(c) ==
  CASE c = "qr_codes" -> Len(REQUIRED_QR_CODES)
    [] c = "images" -> Len(REQUIRED_IMAGES)
    [] c \in {"audio_en", "audio_nl"} -> Len(REQUIRED_AUDIO)
    [] c = "pwa_icons" -> Len(PWA_ICON_SIZES)

Found(r, c) == Len(r[c].found)

RECURSIVE SumOver(_, _, _)
SumOver(f, order_, i) ==
  IF i > Len(order_) THEN 0 ELSE f[order_[i]] + SumOver(f, order_, i + 1)

total_found(r) == SumOver([c \in Categories |-> Found(r, c)], CategoryOrder, 1)
total_required == SumOver([c \in Categories |-> Required(c)], CategoryOrder, 1)

\* The STATUS line
StatusLine(r) ==
  IF total_found(r) = total_required
    THEN "ALL ASSETS COMPLETE"
    ELSE "PARTIAL - SOME ASSETS NEED REPLACEMENT"

\* f"{found:>2}/{required:<2}": right- and left-aligned in two columns
Ratio(found, required) ==
  (IF found < 10 THEN " " ELSE "") \o ToString(found) \o "/" \o
  ToString(required) \o (IF required < 10 THEN " " ELSE "")

\* the names the summary prints
CategoryLabel(c) ==
  CASE c = "qr_codes" -> "QR Codes"
    [] c = "images" -> "Images"
    [] c = "audio_en" -> "Audio EN"
    [] c = "audio_nl" -> "Audio NL"
    [] c = "pwa_icons" -> "PWA Icons"

VerifySummary ==
  /\ pc = "summary" /\ script = "verify_assets"
  /\ console' = console
       \cup {<<CategoryLabel(c), Ratio(Found(results, c), Required(c))>> : c \in Categories}
       \cup {<<"TOTAL", Ratio(total_found(results), total_required)>>}
       \cup {<<"STATUS", StatusLine(results)>>}
       \cup (IF total_found(results) # total_required /\ Found(results, "audio_en") < Len(REQUIRED_AUDIO)
               THEN {<<"Next steps", "Record English audio narration">>} ELSE {})
       \cup (IF total_found(results) # total_required /\ Found(results, "audio_nl") < Len(REQUIRED_AUDIO)
               THEN {<<"Next steps", "Record Dutch audio narration">>} ELSE {})
  /\ pc' = "done"
  /\ results' = results
  /\ VerifyFrame

(***************************************************************************)
(* KeyboardInterrupt: the user interrupts the running script.  It is not   *)
(* an Exception, so "except Exception" and "except ImportError" let it     *)
(* pass; "except KeyboardInterrupt" and a bare "except:" catch it.         *)
(***************************************************************************)
\* The scripts whose __main__ has "except KeyboardInterrupt"
HandlesInterrupt(s) == s \in {"download_rijksmuseum_images", "generate_all_audio"}

\* The interruption arrives inside the try block of __main__ (pc = "start":
\* after the module-level imports)
InterruptCaught ==
  /\ script \in Scripts /\ pc \notin TerminatedPcs \cup {"idle"}
  /\ HandlesInterrupt(script)
  /\ faults < MaxFaults
  /\ pc' = "interrupted"
  /\ trace' = Append(trace, <<"INTERRUPT", pc, "caught">>)
  /\ console' = console \cup {<<"Interrupted", script>>}
  /\ faults' = faults + 1
  /\ UNCHANGED <<written, tree_vars, hist_vars, script, lib_ok, idx, stage, counters,
                 attempted, results, runs>>

\* The interruption arrives where nothing catches it: in a script without
\* the handler, or during the module-level imports of any script
InterruptUncaught ==
  /\ script \in Scripts /\ pc \notin TerminatedPcs \cup {"idle"}
  /\ ~HandlesInterrupt(script) \/ pc = "start"
  /\ faults < MaxFaults
  /\ Crash("KeyboardInterrupt")
  /\ trace' = Append(trace, <<"INTERRUPT", pc, "uncaught">>)
  /\ faults' = faults + 1
  /\ UNCHANGED <<written, tree_vars, hist_vars, script, lib_ok, idx, stage, counters,
                 attempted, results, runs>>

\* The interruption arrives inside the font-loading "try: ... except:" of
\* create_placeholder_image, or of create_rijksmuseum_icon (size >= 192):
\* the bare except takes it for a missing font and the run goes on
InterruptSwallowed ==
  /\ pc = "loop"
  /\ \/ script = "generate_placeholder_images" /\ idx <= Len(IMAGES)
     \/ script = "generate_pwa_icons" /\ idx <= Len(ICON_SIZES) /\ ICON_SIZES[idx] >= 192
  /\ faults < MaxFaults
  /\ trace' = Append(trace, <<"INTERRUPT", pc, "swallowed">>)
  /\ faults' = faults + 1
  /\ UNCHANGED <<written, tree_vars, hist_vars, script, lib_ok, pc, idx, stage,
                 counters, attempted, console, results, runs>>

(***************************************************************************)
(* A whole run of a generator in which no external call raises, as one     *)
(* function of the file tree: its loop applied to its mapping in order.    *)
(***************************************************************************)
\* "for filename, duration in AUDIO_FILES.items()": English, then Dutch
AudioPhEntry(tree, filename) ==
  create_silent_audio(
    create_silent_audio(tree, duration[filename], AudioPath("en", filename)),
    duration[filename], AudioPath("nl", filename))

MarkerEntry(tree, filename) ==
  MarkerItem(MarkerItem(tree, "en", filename), "nl", filename)

AllAudioEntry(tree, filename) ==
  AllAudioItem(AllAudioItem(tree, "en", filename), "nl", filename)

TtsEntry(tree, filename) == TtsItem(TtsItem(tree, "en", filename), "nl", filename)

\* The loop body of the named loop, applied to one key of its mapping
LoopBody(loop, tree, key) ==
  CASE loop = "generate_qr_codes" -> QrItem(tree, key)
    [] loop = "generate_placeholder_images" -> PlaceholderItem(tree, key)
    [] loop = "generate_pwa_icons" -> IconItem(tree, key)
    [] loop = "generate_audio_placeholders" -> AudioPhEntry(tree, key)
    [] loop = "create_marker_files" -> MarkerEntry(tree, key)
    [] loop = "download_rijksmuseum_images" -> DownloadItem(tree, key)
    [] loop = "generate_all_audio" -> AllAudioEntry(tree, key)
    [] loop = "generate_audio_files" -> TtsEntry(tree, key)

\* "for key in mapping: body": the body applied to seq[i], seq[i+1], ...
\* The test on the domain of tree has TLC work the tree out entry by entry,
\* as the loop does, and not all at once after the last entry.
RECURSIVE ForEach(_, _, _, _)
ForEach(loop, tree, seq, i) ==
  IF i > Len(seq) \/ DOMAIN tree # AllPaths
    THEN tree
    ELSE ForEach(loop, LoopBody(loop, tree, seq[i]), seq, i + 1)

generate_qr_codes(tree) == ForEach("generate_qr_codes", tree, QR_CODES, 1)

generate_placeholder_images(tree) ==
  ForEach("generate_placeholder_images", tree, IMAGES, 1)

generate_pwa_icons(tree) == ForEach("generate_pwa_icons", tree, ICON_SIZES, 1)

generate_audio_placeholders(tree, pydub_available) ==
  IF pydub_available
    THEN ForEach("generate_audio_placeholders", tree, AUDIO_FILES, 1)
    ELSE ForEach("create_marker_files", tree, AUDIO_FILES, 1)

download_rijksmuseum_images(tree) ==
  ForEach("download_rijksmuseum_images", tree, ARTWORKS, 1)

generate_all_audio(tree) == ForEach("generate_all_audio", tree, AUDIO_SCRIPTS, 1)

generate_audio_files(tree) == ForEach("generate_audio_files", tree, TTS_AUDIO_SCRIPTS, 1)

\* The file tree after script s ran on tree, its library importable or not:
\* of the scripts whose library is missing only generate_audio_placeholders
\* writes anything
RunResult(s, ok, tree) ==
  CASE s = "generate_audio_placeholders" -> generate_audio_placeholders(tree, ok)
    [] ~ok -> tree
    [] s = "generate_qr_codes" -> generate_qr_codes(tree)
    [] s = "generate_placeholder_images" -> generate_placeholder_images(tree)
    [] s = "generate_pwa_icons" -> generate_pwa_icons(tree)
    [] s = "download_rijksmuseum_images" -> download_rijksmuseum_images(tree)
    [] s = "generate_all_audio" -> generate_all_audio(tree)
    [] s = "generate_audio_with_tts" -> generate_audio_files(tree)
    [] OTHER -> tree

\* The paths a generator declares as its outputs
DeclaredPaths(s) ==
  CASE s = "generate_qr_codes" -> {QrOutPath(c) : c \in Range(QR_CODES)}
    [] s = "generate_placeholder_images" -> {ImageOutPath(f) : f \in Range(IMAGES)}
    [] s = "generate_pwa_icons" -> {IconOutPath(z) : z \in Range(ICON_SIZES)}
    [] s = "generate_audio_placeholders" ->
         {AudioPath(l, f) : l \in Langs, f \in Range(AUDIO_FILES)}
    [] s = "download_rijksmuseum_images" -> {DownloadOutPath(f) : f \in Range(ARTWORKS)}
    [] s = "generate_all_audio" ->
         {AudioPath(l, f) : l \in Langs, f \in Range(AUDIO_SCRIPTS)}
    [] s = "generate_audio_with_tts" ->
         {AudioPath(l, f) : l \in Langs, f \in Range(TTS_AUDIO_SCRIPTS)}
    [] OTHER -> {}

\* The origins of the files of a tree
Origins(tree) == [p \in AllPaths |-> tree[p].origin]

(***************************************************************************)
(* Specifications                                                          *)
(***************************************************************************)
\* One run of one script, in which external calls may raise
Next ==
  \/ \E s \in Generators, ok \in BOOLEAN : runs = 0 /\ Start(s, ok)
  \/ runs = 0 /\ Start("verify_assets", TRUE)
  \/ QrSetup \/ QrItemOk \/ QrItemFail \/ QrSummary
  \/ PlaceholderSetup \/ PlaceholderItemOk \/ PlaceholderItemFail \/ PlaceholderSummary
  \/ IconSetup \/ IconItemOk \/ IconItemFail \/ IconSummary
  \/ AudioPhSetup \/ AudioPhItemOk \/ AudioPhItemFail \/ AudioPhSummary
  \/ MarkerItemOk \/ MarkerItemFail \/ MarkerSummary
  \/ DlSetup \/ DlDirectOk \/ DlDirectFail \/ DlDirectNone
  \/ DlApiOk \/ DlApiFail \/ DlApiNone \/ DlFallback \/ DlSummary
  \/ AllAudioSetup \/ AllAudioSkip \/ AllAudioGenOk \/ AllAudioGenFail \/ AllAudioSummary
  \/ TtsSetup \/ TtsEnOk \/ TtsEnFail \/ TtsNlOk \/ TtsNlFail \/ TtsSummary
  \/ VerifyQr \/ VerifyImages \/ VerifyAudioEn \/ VerifyAudioNl \/ VerifyIcons
  \/ VerifyStory \/ VerifySummary

Spec == Init /\ [][Next]_vars

\* One run of one script, which the user may interrupt
NextInterrupt ==
  \/ Next
  \/ InterruptCaught \/ InterruptUncaught \/ InterruptSwallowed

SpecInterrupt == Init /\ [][NextInterrupt]_vars

\* The steps of a running script
RunStep ==
  \/ QrSetup \/ QrItemOk \/ QrItemFail \/ QrSummary
  \/ PlaceholderSetup \/ PlaceholderItemOk \/ PlaceholderItemFail \/ PlaceholderSummary
  \/ IconSetup \/ IconItemOk \/ IconItemFail \/ IconSummary
  \/ AudioPhSetup \/ AudioPhItemOk \/ AudioPhItemFail \/ AudioPhSummary
  \/ MarkerItemOk \/ MarkerItemFail \/ MarkerSummary
  \/ DlSetup \/ DlDirectOk \/ DlDirectFail \/ DlDirectNone
  \/ DlApiOk \/ DlApiFail \/ DlApiNone \/ DlFallback \/ DlSummary
  \/ AllAudioSetup \/ AllAudioSkip \/ AllAudioGenOk \/ AllAudioGenFail \/ AllAudioSummary
  \/ TtsSetup \/ TtsEnOk \/ TtsEnFail \/ TtsNlOk \/ TtsNlFail \/ TtsSummary
  \/ VerifyQr \/ VerifyImages \/ VerifyAudioEn \/ VerifyAudioNl \/ VerifyIcons
  \/ VerifyStory \/ VerifySummary

\* One run of one script in which every external call returns or raises:
\* the interpreter takes the next step of the running script
SpecLive == Init /\ [][Next]_vars /\ WF_vars(RunStep)

\* The steps of the generators in which no external call raises
CleanGeneratorStep ==
  \/ QrSetup \/ QrItemOk \/ QrSummary
  \/ PlaceholderSetup \/ PlaceholderItemOk \/ PlaceholderSummary
  \/ IconSetup \/ IconItemOk \/ IconSummary
  \/ AudioPhSetup \/ AudioPhItemOk \/ AudioPhSummary
  \/ MarkerItemOk \/ MarkerSummary
  \/ DlSetup \/ DlDirectOk \/ DlDirectNone
  \/ DlApiOk \/ DlApiNone \/ DlFallback \/ DlSummary
  \/ AllAudioSetup \/ AllAudioSkip \/ AllAudioGenOk \/ AllAudioSummary
  \/ TtsSetup \/ TtsEnOk \/ TtsNlOk \/ TtsSummary

\* The sections of the verifier
VerifyStep ==
  \/ VerifyQr \/ VerifyImages \/ VerifyAudioEn \/ VerifyAudioNl \/ VerifyIcons
  \/ VerifyStory \/ VerifySummary

\* Two runs, one after the other, in which no external call raises
NextPair ==
  \/ \E s \in Generators, ok \in BOOLEAN : Len(order) < 2 /\ StartRecorded(s, ok)
  \/ Len(order) < 2 /\ StartRecorded("verify_assets", TRUE)
  \/ CleanGeneratorStep
  \/ VerifyStep

SpecPair == Init /\ [][NextPair]_vars

\* The placeholder workflow: the four placeholder generators and the
\* verifier, up to MaxRuns runs in any order, no external call raising
TourGenerators ==
  { "generate_qr_codes", "generate_placeholder_images",
    "generate_audio_placeholders", "generate_pwa_icons" }

NextTour ==
  \/ \E s \in TourGenerators : StartTracked(s, TRUE)
  \/ StartTracked("generate_audio_placeholders", FALSE)
  \/ StartTracked("verify_assets", TRUE)
  \/ QrSetup \/ QrItemOk \/ QrSummary
  \/ PlaceholderSetup \/ PlaceholderItemOk \/ PlaceholderSummary
  \/ IconSetup \/ IconItemOk \/ IconSummary
  \/ AudioPhSetup \/ AudioPhItemOk \/ AudioPhSummary
  \/ MarkerItemOk \/ MarkerSummary
  \/ VerifyQr \/ VerifyImages \/ VerifyAudioEn \/ VerifyAudioNl \/ VerifyIcons
  \/ VerifyStory \/ VerifySummary

SpecTour == Init /\ [][NextTour]_vars

(***************************************************************************)
(* Properties                                                              *)
(***************************************************************************)
\* The events of the run's trace that are calls of the given kind on arg
Calls(kind, arg) == {i \in 1..Len(trace) : trace[i][1] = kind /\ trace[i][2] = arg}

\* The files verify_assets requires in a category
RequiredPaths(c) ==
  CASE c = "qr_codes" -> {VerifyQrPath(q) : q \in Range(REQUIRED_QR_CODES)}
    [] c = "images" -> {VerifyImagePath(i) : i \in Range(REQUIRED_IMAGES)}
    [] c = "audio_en" -> {VerifyAudioPath("en", a) : a \in Range(REQUIRED_AUDIO)}
    [] c = "audio_nl" -> {VerifyAudioPath("nl", a) : a \in Range(REQUIRED_AUDIO)}
    [] c = "pwa_icons" -> {VerifyIconPath(z) : z \in Range(PWA_ICON_SIZES)}

\* The required files of a category that exist in a tree
Present(tree, c) == {p \in RequiredPaths(c) : Exists(tree[p])}

\* The entries of ARTWORKS the download script has no source for
Sourceless ==
  {f \in Range(ARTWORKS) : f \notin DOMAIN direct_urls /\ f \notin DOMAIN object_number}

\* C1: in every generator, when the external call of one item raises, the
\* batch is not aborted: the item is reported as failed and every later item
\* of the mapping is still attempted.  So a generator whose library is there
\* returns normally, having entered the step of every declared output path.
C1_BatchNotAborted ==
  (script \in Generators /\ lib_ok /\ Terminated) =>
    /\ pc = "done"
    /\ DeclaredPaths(script) \subseteq attempted

\* C2: verify_assets reports in each category a found count equal to the
\* number of required files of the category that exist on disk, and every
\* other required file as missing.
C2_FoundCountsMatchDisk ==
  (script = "verify_assets" /\ pc = "done") =>
    \A c \in Categories :
      /\ Found(results, c) = Cardinality(Present(fs, c))
      /\ Len(results[c].missing) = Required(c) - Cardinality(Present(fs, c))
      /\ <<CategoryLabel(c), Ratio(Cardinality(Present(fs, c)), Required(c))>>
           \in console

\* C3: verify_assets prints ALL ASSETS COMPLETE only if every required file
\* exists on disk, and the PARTIAL status in every other state.
C3_CompleteOnlyIfAllExist ==
  (script = "verify_assets" /\ pc = "done") =>
    /\ <<"STATUS", "ALL ASSETS COMPLETE">> \in console
         <=> \A c \in Categories : Present(fs, c) = RequiredPaths(c)
    /\ <<"STATUS", "PARTIAL - SOME ASSETS NEED REPLACEMENT">> \in console
         <=> \E c \in Categories : Present(fs, c) # RequiredPaths(c)

\* C4 as stated: after a run of a generator in which its library is there
\* and every external call succeeds, a file exists at every output path the
\* script declares.
C4_EveryDeclaredPathProduced ==
  (script \in Generators /\ lib_ok /\ pc = "done" /\ faults = 0) =>
    \A p \in DeclaredPaths(script) : Exists(fs[p])

\* C4 as amended: the same, except that download_rijksmuseum_images produces
\* a file only for the entries that have a direct URL or an object number;
\* the paths of its three other entries are left as they were.
C4_DeclaredPathsWithSourceProduced ==
  (script \in Generators /\ lib_ok /\ pc = "done" /\ faults = 0) =>
    \A p \in DeclaredPaths(script) :
      IF /\ script = "download_rijksmuseum_images"
         /\ p \in {DownloadOutPath(f) : f \in Sourceless}
        THEN fs[p] = fs0[p] /\ p \notin written
        ELSE Exists(fs[p])

\* a clean download run that started without the three files and ended
\* without them, the other ten being there
C4_Witness ==
  /\ script = "download_rijksmuseum_images" /\ lib_ok /\ pc = "done" /\ faults = 0
  /\ \A f \in Sourceless : ~Exists(fs[DownloadOutPath(f)])
  /\ Cardinality({f \in Range(ARTWORKS) : Exists(fs[DownloadOutPath(f)])}) = 10
  /\ Cardinality(written) = 10

\* C5: in every script a missing third-party library is caught and logged,
\* and never fatal: no uncaught exception, no non-zero exit status.
C5_MissingLibraryNotFatal ==
  (script \in Scripts /\ ~lib_ok /\ Terminated) =>
    /\ pc # "crashed"
    /\ ExitStatus = 0
    /\ \E m \in console : m[1] \in {"pydub not available", "gTTS not available"}

\* The most calls of one kind on one argument that a run issues: one, but
\* two saves of the output path of a download entry that has both a direct
\* URL and an object number (the second source is tried when the first
\* attempt failed)
CallLimit(kind, arg) ==
  IF /\ kind = "SAVE"
     /\ script = "download_rijksmuseum_images"
     /\ \E f \in DOMAIN direct_urls \cap DOMAIN object_number : arg = DownloadOutPath(f)
    THEN 2 ELSE 1

ExternalKinds == {"GET", "OPEN", "TTS", "SAVE", "EXPORT", "WRITE"}

\* C6 as stated: nothing is retried; within one run the external call for a
\* given item (GET of a URL, TTS of a file and language, save of an output
\* path) is issued at most once, whether it succeeds or fails.
C6_EachCallAtMostOnce ==
  \A i \in 1..Len(trace) :
    trace[i][1] \in ExternalKinds => Cardinality(Calls(trace[i][1], trace[i][2])) <= 1

\* C6 as amended: a GET of a URL, a TTS synthesis of a file and language, an
\* export and a marker write are issued at most once in a run; a save of an
\* output path is issued at most once too, except in
\* download_rijksmuseum_images, where the path of an entry with both a
\* direct URL and an object number is saved a second time, from the second
\* source, after the attempt from the first source failed.
C6_OnceExceptSecondSource ==
  \A i \in 1..Len(trace) :
    trace[i][1] \in ExternalKinds =>
      /\ Cardinality(Calls(trace[i][1], trace[i][2])) <= CallLimit(trace[i][1], trace[i][2])
      /\ \A j \in (i + 1)..Len(trace) :
           (trace[j][1] = trace[i][1] /\ trace[j][2] = trace[i][2]) =>
             /\ trace[i][3] = "raised"
             /\ \E k \in (i + 1)..(j - 1) : trace[k][1] = "GET" /\ Calls("GET", trace[k][2]) = {k}

\* a download run that saved one output path twice: the save of the direct
\* attempt raised, the object-number source was then fetched and saved
C6_Witness ==
  /\ script = "download_rijksmuseum_images" /\ pc = "done"
  /\ \E i, j \in 1..Len(trace) :
       /\ i < j
       /\ trace[i][1] = "SAVE" /\ trace[j][1] = "SAVE"
       /\ trace[i][2] = trace[j][2]
       /\ trace[i][3] = "raised" /\ trace[j][3] = "ok"

\* C7: verify_assets is read-only: no step of a run of it creates, changes
\* or deletes a file or a directory, whatever the file tree and the content
\* of the tour file.
C7_VerifierReadOnly ==
  [][script' = "verify_assets" => (fs' = fs /\ dirs' = dirs)]_vars

\* a finished verifier run over a tree that generators wrote to and that
\* holds a tour file that is not JSON
C7_Witness ==
  /\ script = "verify_assets" /\ pc = "done"
  /\ fs # fs0
  /\ fs[story_path].origin = "story_invalid"
  /\ <<"JSON Error", "">> \in console

\* The two recorded runs have ended, both were generators with their library
\* importable
PairDone ==
  /\ Len(order) = 2 /\ Terminated
  /\ \A i \in 1..2 : order[i][1] \in Generators /\ order[i][2]

\* The file tree the two recorded runs leave when run in the other order
SwappedResult ==
  RunResult(order[1][1], order[1][2], RunResult(order[2][1], order[2][2], fs0))

\* The pairs of generators that write the same paths with different content
OverlappingPairs ==
  { {"generate_placeholder_images", "download_rijksmuseum_images"},
    {"generate_audio_placeholders", "generate_audio_with_tts"} }

\* C8 as stated: any two generators, run in either order from any file tree
\* with all external calls succeeding, leave the same files with the same
\* content origin at every path.
C8_AnyTwoGeneratorsCommute ==
  PairDone => Origins(fs) = Origins(SwappedResult)

\* C8 as amended: the same for any two generators other than the pairs
\* generate_placeholder_images / download_rijksmuseum_images and
\* generate_audio_placeholders / generate_audio_with_tts, which write the
\* same paths with different content.
C8_GeneratorsCommuteUnlessOverlapping ==
  (PairDone /\ {order[1][1], order[2][1]} \notin OverlappingPairs) =>
    Origins(fs) = Origins(SwappedResult)

\* generate_audio_placeholders then generate_all_audio: both write the MP3
\* paths, and generate_all_audio skipped the placeholders it found
C8_Witness ==
  /\ PairDone
  /\ order[1][1] = "generate_audio_placeholders"
  /\ order[2][1] = "generate_all_audio"
  /\ skipped = total_files
  /\ fs # fs0

\* The paths a run of a script may write
Outputs(s, ok) ==
  CASE s = "generate_audio_placeholders" /\ ~ok ->
         {MarkerOutPath(l, f) : l \in Langs, f \in Range(AUDIO_FILES)}
    [] s = "download_rijksmuseum_images" ->
         {DownloadOutPath(f) : f \in Range(ARTWORKS) \ Sourceless}
    [] OTHER -> DeclaredPaths(s)

\* C9 as stated: once a file exists at an asset path, no later run of any
\* script overwrites or otherwise mutates it.
C9_ExistingFileNeverChanged ==
  [][\A p \in AllPaths : Exists(fs[p]) => fs'[p] = fs[p]]_vars

\* C9 as amended: no script deletes a file, and a run changes an existing
\* file only at one of its own output paths: the generators overwrite the
\* files they produce on every run, except generate_all_audio, which leaves
\* an existing MP3 of more than 10000 bytes as it is; verify_assets changes
\* no file.
C9_ChangedOnlyByItsGenerator ==
  [][\A p \in AllPaths :
       Exists(fs[p]) =>
         /\ Exists(fs'[p])
         /\ fs'[p] # fs[p] =>
              /\ script \in Generators
              /\ p \in Outputs(script, lib_ok)
              /\ script = "generate_all_audio" => fs[p].size <= 10000]_vars

\* a generate_all_audio run that replaced an existing small MP3 and kept an
\* existing larger one
C9_Witness ==
  /\ script = "generate_all_audio" /\ pc = "done"
  /\ Len(order) = 1
  /\ \E p \in AllPaths : Exists(fs0[p]) /\ fs[p] # fs0[p] /\ fs[p].origin = "real"
  /\ \E p \in DeclaredPaths(script) : Exists(fs0[p]) /\ fs[p] = fs0[p]

\* The file tree before the first run held no asset file
StartedEmpty == \A p \in AllPaths \ {story_path} : ~Exists(fs0[p])

\* generate_qr_codes, generate_placeholder_images, generate_audio_placeholders
\* (pydub importable) and generate_pwa_icons have each returned normally
TourGenerated == {<<g, TRUE>> : g \in TourGenerators} \subseteq completed

\* C10: from an empty tree, after the four placeholder generators have each
\* completed (pydub importable), in any order, verify_assets finds every
\* required file itself in every category, reports 58/58 and prints ALL
\* ASSETS COMPLETE.
C10_GeneratedTreeVerifiesComplete ==
  (script = "verify_assets" /\ pc = "done" /\ StartedEmpty /\ TourGenerated) =>
    /\ results["qr_codes"].found = REQUIRED_QR_CODES
    /\ results["images"].found = REQUIRED_IMAGES
    /\ results["audio_en"].found = REQUIRED_AUDIO
    /\ results["audio_nl"].found = REQUIRED_AUDIO
    /\ results["pwa_icons"].found = IconNames
    /\ \A c \in Categories : results[c].missing = << >>
    /\ <<"TOTAL", "58/58">> \in console
    /\ <<"STATUS", "ALL ASSETS COMPLETE">> \in console

C10_Witness ==
  /\ script = "verify_assets" /\ pc = "done" /\ StartedEmpty /\ TourGenerated
  /\ <<"generate_audio_placeholders", FALSE>> \notin completed
  /\ <<"STATUS", "ALL ASSETS COMPLETE">> \in console

\* C11: in every script a user interruption arriving at any point of the run
\* is handled at top level: the script prints an interruption message and
\* exits without processing any further item.
C11_InterruptHandledAtTopLevel ==
  \A i \in 1..Len(trace) :
    trace[i][1] = "INTERRUPT" =>
      /\ i = Len(trace)
      /\ pc = "interrupted"
      /\ <<"Interrupted", script>> \in console

\* The positions of the network requests in the run's trace
Requests == {i \in 1..Len(trace) : trace[i][1] \in {"GET", "TTS"}}

\* C12: in every script that issues network requests a fixed polite delay
\* occurs between any two consecutive requests of a run, whether the earlier
\* request succeeded or failed.
C12_DelayBetweenRequests ==
  \A i, j \in Requests :
    (i < j /\ \A k \in (i + 1)..(j - 1) : k \notin Requests) =>
      \E k \in (i + 1)..(j - 1) : trace[k][1] = "SLEEP"

\* C13: every script terminates in every run in which each external call
\* returns or raises, and within a run no entry of a script's mapping is
\* processed more than once: the position in the mapping stays or moves to
\* the next entry at every step of the run.
C13_TerminatesEachEntryOnce ==
  /\ (pc # "idle") ~> Terminated
  /\ [][pc' # "start" => idx' \in {idx, idx + 1}]_vars

\* a download run that ended after the last entry although a call had raised
C13_Witness ==
  /\ script = "download_rijksmuseum_images" /\ pc = "done"
  /\ faults > 0
  /\ idx = Len(ARTWORKS) + 1
  /\ attempted = DeclaredPaths(script)

(***************************************************************************)
(* C14: the download script counts each of the 13 ARTWORKS entries exactly *)
(* once, in success_count or in failed_count: while the loop is at entry   *)
(* idx the two counters add up to the idx - 1 entries behind it, each step *)
(* that leaves an entry adds one to exactly one counter, and at the        *)
(* summary success_count + failed_count = 13.                              *)
(***************************************************************************)
DownloadRun == script = "download_rijksmuseum_images"

C14_EachArtworkCountedOnce ==
  /\ Len(ARTWORKS) = 13
  /\ (DownloadRun /\ pc = "loop") =>
       /\ success_count + failed_count = idx - 1
       /\ idx <= Len(ARTWORKS) + 1
  /\ (DownloadRun /\ pc = "done") =>
       /\ success_count + failed_count = 13
       /\ <<"Successfully processed", ToString(13 - failed_count) \o "/13">> \in console

\* a finished download run with entries of both kinds, one of them after a
\* failed attempt
C14_Witness ==
  /\ DownloadRun /\ pc = "done"
  /\ success_count > 0 /\ failed_count > 0
  /\ \E i \in 1..Len(trace) : trace[i][1] = "GET" /\ trace[i][3] = "raised"

(***************************************************************************)
(* C15: for every ARTWORKS entry the download script tries the direct URL  *)
(* first; it tries the object-number URL only for an entry that has an     *)
(* object_number and only when no earlier attempt for the entry succeeded; *)
(* no attempt follows a success; no entry has more than two attempts.      *)
(* An attempt is a call of download_and_optimize_image, which issues one   *)
(* GET for its URL.                                                        *)
(***************************************************************************)
\* the URL the script derives from the object number of entry f
ObjectUrl(f) == get_rijksmuseum_image_url(object_number[f], "None", "ok").url

\* positions in the trace of the attempts for entry f from its direct URL,
\* from its object-number URL, and of its successful saves
DirectAttempts(f) ==
  IF f \in DOMAIN direct_urls
    THEN LET url == direct_urls[f] IN
           {i \in 1..Len(trace) : trace[i][1] = "GET" /\ trace[i][2] = url}
    ELSE {}
ObjectAttempts(f) ==
  IF f \in DOMAIN object_number
    THEN LET url == ObjectUrl(f) IN
           {i \in 1..Len(trace) : trace[i][1] = "GET" /\ trace[i][2] = url}
    ELSE {}
Saves(f) ==
  LET output_path == DownloadOutPath(f) IN
    {i \in 1..Len(trace) :
       trace[i][1] = "SAVE" /\ trace[i][3] = "ok" /\ trace[i][2] = output_path}

\* the URLs of all entries
SourceUrls ==
  {direct_urls[f] : f \in DOMAIN direct_urls} \cup {ObjectUrl(f) : f \in DOMAIN object_number}

C15_DirectFirstThenObjectNumber ==
  DownloadRun =>
    /\ \A i \in 1..Len(trace) : trace[i][1] = "GET" => trace[i][2] \in SourceUrls
    /\ \A n \in 1..Len(ARTWORKS) :
         LET f == ARTWORKS[n]
             D == DirectAttempts(f)
             A == ObjectAttempts(f)
             S == Saves(f) IN
           /\ Cardinality(D) <= 1 /\ Cardinality(A) <= 1
           /\ Cardinality(D \cup A) <= 2
           /\ \A d \in D, a \in A : d < a
           /\ (A # {} /\ f \in DOMAIN direct_urls) => D # {}
           /\ (n < idx /\ f \in DOMAIN direct_urls) => D # {}
           /\ A # {} => f \in DOMAIN object_number
           /\ \A a \in A, s \in S : a < s
           /\ \A g \in D \cup A, s \in S : g < s
           /\ Cardinality(S) <= 1

\* an entry with two attempts: its direct URL failed and its object-number
\* URL was tried and succeeded
C15_Witness ==
  /\ DownloadRun /\ pc = "done"
  /\ \E n \in 1..Len(ARTWORKS) :
       /\ DirectAttempts(ARTWORKS[n]) # {}
       /\ ObjectAttempts(ARTWORKS[n]) # {}
       /\ Saves(ARTWORKS[n]) # {}

(***************************************************************************)
(* C16: in the download script, an entry whose every download attempt      *)
(* failed (or that has no source) keeps the file that was at its output    *)
(* path unchanged and is counted as success; when no file was there the    *)
(* entry is counted as failed and no file is created.                      *)
(***************************************************************************)
\* the entries the loop has left without a successful download
FailedEntries ==
  {n \in 1..(idx - 1) : Saves(ARTWORKS[n]) = {}}

C16_FailedEntryKeepsExistingFile ==
  DownloadRun =>
    /\ \A n \in FailedEntries :
         LET output_path == DownloadOutPath(ARTWORKS[n]) IN
           IF Exists(fs0[output_path])
             THEN /\ fs[output_path] = fs0[output_path]
                  /\ <<"Using existing placeholder", output_path>> \in console
             ELSE /\ ~Exists(fs[output_path])
                  /\ <<"Could not download", output_path>> \in console
    /\ failed_count =
         Cardinality({n \in FailedEntries : ~Exists(fs0[DownloadOutPath(ARTWORKS[n])])})

(***************************************************************************)
(* C17: download_and_optimize_image never propagates an exception (the     *)
(* download run never ends by one); it returns True, which the caller      *)
(* counts and reports as "Saved", only after the request, the decoding and *)
(* the save to output_path succeeded; when one of them raises, nothing     *)
(* more of the attempt is done, the error is printed and the attempt is    *)
(* not counted.                                                            *)
(***************************************************************************)
\* the entries the loop has left and counted as success
CountedEntries ==
  {n \in 1..(idx - 1) :
     \/ <<"Saved", DownloadOutPath(ARTWORKS[n])>> \in console
     \/ <<"Using existing placeholder", DownloadOutPath(ARTWORKS[n])>> \in console}

\* the output path of the entry that a URL or an output path belongs to
EntryPath(arg) ==
  LET n == CHOOSE n \in 1..Len(ARTWORKS) :
             \/ arg = DownloadOutPath(ARTWORKS[n])
             \/ ARTWORKS[n] \in DOMAIN direct_urls /\ arg = direct_urls[ARTWORKS[n]]
             \/ ARTWORKS[n] \in DOMAIN object_number /\ arg = ObjectUrl(ARTWORKS[n])
  IN DownloadOutPath(ARTWORKS[n])

C17_DownloadReturnsFalseOnFailure ==
  DownloadRun =>
    /\ lib_ok => pc \in {"start", "loop", "done"}
    /\ \A i \in 1..Len(trace) :
         /\ trace[i][3] = "raised" =>
              /\ i = Len(trace) \/ trace[i + 1][1] = "GET"
              /\ <<"Error", EntryPath(trace[i][2])>> \in console
              /\ \A k \in i..Len(trace) :
                   (trace[k][1] = "SAVE" /\ trace[k][3] = "ok") =>
                     \E g \in (i + 1)..k : trace[g][1] = "GET"
         /\ (trace[i][1] = "SAVE" /\ trace[i][3] = "ok") =>
              /\ i >= 3
              /\ trace[i - 1][1] = "OPEN" /\ trace[i - 1][3] = "ok"
              /\ trace[i - 2][1] = "GET" /\ trace[i - 2][3] = "ok"
              /\ trace[i - 2][2] = trace[i - 1][2]
              /\ EntryPath(trace[i - 2][2]) = trace[i][2]
              /\ <<"Saved", trace[i][2]>> \in console
              /\ fs[trace[i][2]] = File("real", 600000)
    /\ \A c \in console :
         c[1] = "Saved" =>
           \E i \in 1..Len(trace) :
             trace[i][1] = "SAVE" /\ trace[i][3] = "ok" /\ trace[i][2] = c[2]
    /\ success_count = Cardinality(CountedEntries)

\* a finished run in which one attempt raised in the save and another
\* attempt saved its image
C17_Witness ==
  /\ DownloadRun /\ pc = "done"
  /\ \E i \in 1..Len(trace) : trace[i][1] = "SAVE" /\ trace[i][3] = "raised"
  /\ \E i \in 1..Len(trace) : trace[i][1] = "SAVE" /\ trace[i][3] = "ok"

(***************************************************************************)
(* C18: get_rijksmuseum_image_url called without an API key returns a      *)
(* non-empty URL and issues no request; no run of the download script      *)
(* sends a request to the Rijksmuseum API; and every entry with an         *)
(* object_number whose direct attempt failed or was absent gets an attempt *)
(* from its object-number URL.                                             *)
(***************************************************************************)
\* the API address of every object number
RijksmuseumApiUrls ==
  {"https://www.rijksmuseum.nl/api/en/collection/" \o object_number[f] :
     f \in DOMAIN object_number}

\* the direct attempt for entry f saved its image
DirectSucceeded(f) ==
  \E d \in DirectAttempts(f) :
    d + 2 <= Len(trace) /\ trace[d + 2] = <<"SAVE", DownloadOutPath(f), "ok">>

AllAudioRun == script = "generate_all_audio"

\* the pairs handled so far whose console line is the given one
Reported(line) == {p \in attempted : <<line, p>> \in console}

C19_EachPairInOneCounter ==
  AllAudioRun =>
    /\ total_files = 24
    /\ lib_ok => pc \in {"start", "loop", "done"}
    /\ pc = "loop" =>
         /\ generated + skipped + errors =
              2 * (idx - 1) + (IF stage = "nl" THEN 1 ELSE 0)
         /\ Cardinality(attempted) = generated + skipped + errors
    /\ pc = "done" =>
         /\ generated + skipped + errors = 24
         /\ attempted = DeclaredPaths(script)
    /\ skipped = Cardinality(Reported("Already exists, skipping"))
    /\ generated = Cardinality(Reported("Generated"))
    /\ errors = Cardinality(Reported("Error"))
    /\ \A p \in attempted :
         /\ Cardinality({line \in {"Already exists, skipping", "Generated", "Error"} :
                           <<line, p>> \in console}) = 1
         /\ <<"Already exists, skipping", p>> \in console
              <=> (Exists(fs0[p]) /\ fs0[p].size > 10000)
         /\ <<"Generated", p>> \in console => fs[p] = File("real", 300000)
         /\ <<"Already exists, skipping", p>> \in console => fs[p] = fs0[p]

\* a finished run that generated again a file of exactly 10000 bytes,
\* skipped a file of 10001 bytes and counted one error
C19_Witness ==
  /\ AllAudioRun /\ pc = "done" /\ errors > 0
  /\ \E p, q \in attempted :
       /\ fs0[p].size = 10000 /\ Exists(fs0[p]) /\ <<"Generated", p>> \in console
       /\ fs0[q].size = 10001 /\ <<"Already exists, skipping", q>> \in console

(***************************************************************************)
(* C20: generate_all_audio generates only the remaining audio files and is *)
(* idempotent: the first run writes exactly the paths that held no file of *)
(* more than 10000 bytes, and a second run started after a run that left   *)
(* all 24 files larger than 10000 bytes calls the TTS service zero times,  *)
(* reports 24 skipped and leaves every audio file unchanged.               *)
(***************************************************************************)
\* the first and the second of two complete runs of generate_all_audio
FirstAllAudioRun ==
  Len(order) = 1 /\ order[1] = <<"generate_all_audio", TRUE>>
SecondAllAudioRun ==
  /\ Len(order) = 2
  /\ order[1] = <<"generate_all_audio", TRUE>>
  /\ order[2] = <<"generate_all_audio", TRUE>>

C20_SecondRunSkipsAll ==
  /\ (FirstAllAudioRun /\ pc = "done") =>
       /\ written = {p \in DeclaredPaths("generate_all_audio") :
                       ~(Exists(fs0[p]) /\ fs0[p].size > 10000)}
       /\ \A p \in DeclaredPaths("generate_all_audio") : fs[p].size > 10000
       /\ \A p \in AllPaths \ written : fs[p] = fs0[p]
  /\ SecondAllAudioRun =>
       /\ \A i \in 1..Len(trace) : trace[i][1] # "TTS"
       /\ trace = << >>
       /\ generated = 0 /\ errors = 0 /\ written = {}
       /\ skipped = Cardinality(attempted)
       /\ fs = generate_all_audio(fs0)
       /\ pc = "done" =>
            /\ skipped = 24
            /\ <<"Total ready", "24/24">> \in console
            /\ \A p \in DeclaredPaths("generate_all_audio") :
                 <<"Already exists, skipping", p>> \in console

\* a finished second run, after a first run that generated some files and
\* skipped the others
C20_Witness ==
  /\ SecondAllAudioRun /\ pc = "done" /\ skipped = 24
  /\ \E p, q \in DeclaredPaths("generate_all_audio") :
       fs[p] # fs0[p] /\ fs[q] = fs0[q]

(***************************************************************************)
(* C21: generate_all_audio prints "All audio files complete!" only when    *)
(* all audio files are ready: generated + skipped = total_files (24) and   *)
(* errors = 0.                                                             *)
(***************************************************************************)
C21_CompleteOnlyWhenAllReady ==
  (AllAudioRun /\ <<"All audio files complete!", "">> \in console) =>
    /\ generated + skipped = total_files
    /\ total_files = 24
    /\ errors = 0

(***************************************************************************)
(* C22: in generate_audio_with_tts, whichever TTS calls fail, the          *)
(* success_count printed as "Generated N audio files!" equals the number   *)
(* of audio files saved to disk during the run; the Dutch file of an entry *)
(* is generated and counted whether or not the English generation of the   *)
(* entry failed.                                                           *)
(***************************************************************************)
TtsRun == script = "generate_audio_with_tts"

C22_CountEqualsFilesSaved ==
  TtsRun =>
    /\ success_count = Cardinality(written)
    /\ \A p \in written : <<"Generated", p>> \in console
    /\ (pc = "done" /\ lib_ok) =>
         <<"Generated audio files", ToString(Cardinality(written))>> \in console

(***************************************************************************)
(* C23: verify_assets always reaches its SUMMARY and STATUS output         *)
(* whatever the state of rijksmuseum_tour.whisker (missing, not JSON, JSON *)
(* of an unexpected shape): the problem is reported on the console, never  *)
(* raised, and changes neither the counts of the categories nor the final  *)
(* status, which are those of the same tree without the tour file.         *)
(***************************************************************************)
VerifyRun == script = "verify_assets"

\* the results the five asset sections collect from a tree
VerifyResults(tree) ==
  [c \in Categories |->
     CASE c = "qr_codes" ->
            CheckFiles(tree, REQUIRED_QR_CODES,
                       [i \in 1..Len(REQUIRED_QR_CODES) |-> VerifyQrPath(REQUIRED_QR_CODES[i])],
                       1, EmptyResults[c])
       [] c = "images" ->
            CheckFiles(tree, REQUIRED_IMAGES,
                       [i \in 1..Len(REQUIRED_IMAGES) |-> VerifyImagePath(REQUIRED_IMAGES[i])],
                       1, EmptyResults[c])
       [] c = "audio_en" -> CheckAudio(tree, "en", 1, EmptyResults[c])
       [] c = "audio_nl" -> CheckAudio(tree, "nl", 1, EmptyResults[c])
       [] c = "pwa_icons" ->
            CheckFiles(tree, IconNames,
                       [i \in 1..Len(PWA_ICON_SIZES) |-> VerifyIconPath(PWA_ICON_SIZES[i])],
                       1, EmptyResults[c])]

\* the tree without the tour file
WithoutStory(tree) == [tree EXCEPT ![story_path] = NoFile]

\* what the console says about the tour file, for each state of the file
StoryProblemReported ==
  CASE ~Exists(fs[story_path]) -> <<"rijksmuseum_tour.whisker", "MISSING">> \in console
    [] fs[story_path].origin \in {"story_invalid", "story_odd"} ->
         <<"JSON Error", "">> \in console
    [] OTHER -> <<"JSON Error", "">> \notin console

C23_TourFileNeverFatal ==
  /\ [](VerifyRun => pc \in {"start", "images", "audio_en", "audio_nl", "icons",
                             "story", "summary", "done"})
  /\ (VerifyRun /\ pc = "story") ~>
       (VerifyRun /\ pc = "done" /\ <<"STATUS", StatusLine(results)>> \in console)
  /\ [][(VerifyRun /\ pc = "story") =>
          (pc' = "summary" /\ results' = results /\ fs' = fs)]_vars
  /\ []((VerifyRun /\ pc \in {"summary", "done"}) =>
          /\ StoryProblemReported
          /\ results = VerifyResults(WithoutStory(fs)))
  /\ []((VerifyRun /\ pc = "done") =>
          /\ <<"STATUS", StatusLine(VerifyResults(WithoutStory(fs)))>> \in console
          /\ \A c \in Categories :
               <<CategoryLabel(c),
                 Ratio(Found(VerifyResults(WithoutStory(fs)), c), Required(c))>> \in console)

\* a finished verifier run over a tour file that is JSON of an unexpected
\* shape, the status being printed after the JSON error
C23_Witness ==
  /\ VerifyRun /\ pc = "done"
  /\ fs[story_path].origin = "story_odd"
  /\ <<"Valid JSON", "">> \in console /\ <<"JSON Error", "">> \in console
  /\ \E line \in {"ALL ASSETS COMPLETE", "PARTIAL - SOME ASSETS NEED REPLACEMENT"} :
       <<"STATUS", line>> \in console
================================================================================
